---- MODULE Spec2Model ----
(***************************************************************************)
(* Model of the photo indexing pipeline (http-server/src/photos.rs), the   *)
(* blog content store (http-server/src/blog.rs) and the update listener    *)
(* (http-server/src/main.rs).                                              *)
(*                                                                         *)
(* Strings are sequences of byte values, so that the character tests, the  *)
(* orderings and the formatting the code performs are computed.            *)
(***************************************************************************)
EXTENDS Integers, Sequences, FiniteSets, TLC

VARIABLES
    disk,             \* content/photos: [manifest, files]
    pc,               \* position of PhotosState::new / initialize
    fs_log,           \* file-system operations performed by the build so far
    all_albums,       \* HashMap<String, ParsedAlbum> of PhotosState::new
    all_album_paths,  \* Vec<String>: album paths in declaration order
    candidates,       \* Vec<(path, file_string, albums)>
    results,          \* per candidate: outcome of the parallel map closure
    auto_date_albums, \* Mutex<HashMap<Date, AutoDateAlbumBuilder>>
    saved_error,      \* the first error of the parallel collect, if any
    build,            \* Result<PhotosState> returned by PhotosState::new
    PHOTOS_STATE,     \* photos::STATE
    status,           \* the progress thread of PhotosState::new and its channel
    blog_disk,        \* content/blog-posts: file name -> content
    BLOG_STATE,       \* blog::STATE: the ArcSwap pointer (an index into heap)
    heap,             \* Arc<BlogState> allocations
    listener,         \* listen_for_updates: its position and pending line
    new_state,        \* blog::update: the local `new_state`
    readers,          \* request handlers of the blog routes
    log,              \* lines written to stderr/stdout by the listener
    request,          \* the read request a photo route handler has served last
    response,         \* and what the handler returned for it
    call,             \* a function of the program and the arguments it is called with
    ret               \* what the call returned, once it has

pvars == <<disk, pc, fs_log, all_albums, all_album_paths, candidates, results,
           auto_date_albums, saved_error, build, PHOTOS_STATE, status>>
uvars == <<blog_disk, BLOG_STATE, heap, listener, new_state, readers, log>>
rvars == <<request, response>>
fvars == <<call, ret>>
vars == <<pvars, uvars, rvars, fvars>>

\* Option<T>: None, or Some(v) whose value is Unwrap(Some(v))
None == <<>>
Some(v) == <<v>>
Unwrap(o) == o[1]

---------------------------------------------------------------------------
(* Strings                                                                 *)

s_all == <<97,108,108>>                                   \* "all"
s_All_photos == <<65,108,108,32,112,104,111,116,111,115>> \* "All photos"
s_favorites == <<102,97,118,111,114,105,116,101,115>>     \* "favorites"
s_Favorites == <<70,97,118,111,114,105,116,101,115>>      \* "Favorites"
s_alps == <<97,108,112,115>>                              \* "alps"
s_Zermatt == <<90,101,114,109,97,116,116>>                \* "Zermatt"
s_lake == <<108,97,107,101>>                              \* "lake"
s_Lake == <<76,97,107,101>>                               \* "Lake"
s_peak == <<112,101,97,107>>                              \* "peak"
s_Peak == <<80,101,97,107>>                               \* "Peak"
s_xmas == <<120,109,97,115>>                              \* "xmas"
s_Xmas == <<88,109,97,115>>                               \* "Xmas"
s_yule == <<121,117,108,101>>                             \* "yule"
s_Yule == <<89,117,108,101>>                              \* "Yule"
s_Everything == <<69,118,101,114,121,116,104,105,110,103>> \* "Everything"
s_Sunday == <<83,117,110,100,97,121>>                     \* "Sunday"
s_a == <<97>>                                             \* "a"
s_b == <<98>>                                             \* "b"
f_a_jpg == <<97,46,106,112,103>>                          \* "a.jpg"
f_b_jpg == <<98,46,106,112,103>>                          \* "b.jpg"
f_a_x_jpg == <<97,46,120,46,106,112,103>>                 \* "a.x.jpg"
f_a_b_jpg == <<97,32,98,46,106,112,103>>                  \* "a b.jpg"
s_a_b == <<97,32,98>>                                     \* "a b"

\* str::cmp: bytewise lexicographic order; -1, 0 or 1
RECURSIVE StrCmp(_, _)
StrCmp(x, y) ==
    IF x = <<>> THEN (IF y = <<>> THEN 0 ELSE -1)
    ELSE IF y = <<>> THEN 1
    ELSE IF x[1] < y[1] THEN -1
    ELSE IF x[1] > y[1] THEN 1
    ELSE StrCmp(Tail(x), Tail(y))

\* The character ranges that are URI encoded to themselves
URI_ENCODE_AS_IS_RANGES ==
    { <<65, 90>>, <<97, 122>>, <<48, 57>>,
      <<45, 45>>, <<126, 126>>, <<46, 46>>, <<95, 95>> }

is_uri_idempotent(s) ==
    \A i \in 1..Len(s) : \E r \in URI_ENCODE_AS_IS_RANGES : r[1] <= s[i] /\ s[i] <= r[2]

\* Path::file_prefix: the file name up to its first '.', a leading '.' apart
file_prefix(name) ==
    LET dots == { i \in 2..Len(name) : name[i] = 46 }
    IN  IF dots = {} THEN name
        ELSE SubSeq(name, 1, (CHOOSE i \in dots : \A j \in dots : i <= j) - 1)

\* Decimal rendering of a number in exactly two digits ("%m", "%d")
Dec2(n) == << 48 + ((n \div 10) % 10), 48 + (n % 10) >>

\* Decimal rendering without padding ("%-d"), for n < 100
DecNoPad(n) == IF n < 10 THEN << 48 + n >> ELSE Dec2(n)

\* Decimal rendering of a year in four digits ("%Y")
Dec4(n) == Dec2(n \div 100) \o Dec2(n % 100)

MonthName(m) ==
    IF m = 12 THEN <<68,101,99,101,109,98,101,114>>      \* "December"
    ELSE IF m = 11 THEN <<78,111,118,101,109,98,101,114>> \* "November"
    ELSE <<63>>

\* The sequences that enumerate the set S, each element once
Perms(S) ==
    { p \in [1..Cardinality(S) -> S] : \A x \in S : \E i \in DOMAIN p : p[i] = x }

Range(f) == { f[i] : i \in DOMAIN f }

\* Vec::remove(i)
RemoveAt(s, i) == SubSeq(s, 1, i - 1) \o SubSeq(s, i + 1, Len(s))

\* Vec::reverse
Reverse(s) == [ i \in 1..Len(s) |-> s[Len(s) + 1 - i] ]

---------------------------------------------------------------------------
(* The photo directory: the inputs of PhotosState::new                     *)

\* chrono::Date: a calendar date
D1 == [year |-> 2021, month |-> 12, day |-> 18]
D2 == [year |-> 2021, month |-> 12, day |-> 19]

\* chrono::DateTime<FixedOffset>: `utc` is the instant (what Ord and Eq
\* compare), `date` the calendar date in the timestamp's own offset (what
\* .date() returns)
T1 == [date |-> D1, utc |-> 1]
T2 == [date |-> D1, utc |-> 2]
T3 == [date |-> D2, utc |-> 3]
Times == {T1, T2, T3}

\* What reading and decoding an image file can run into
Faults == {"none", "io", "exif", "codec"}

\* AutoDateAlbumBuilder::new, the `path` field: "%Y-%m-%d"
DatePath(date) == Dec4(date.year) \o <<45>> \o Dec2(date.month) \o <<45>> \o Dec2(date.day)

\* AutoDateAlbumBuilder::new, the `name` field: "%-d %B, %Y"
DateName(date) ==
    DecNoPad(date.day) \o <<32>> \o MonthName(date.month) \o <<44, 32>> \o Dec4(date.year)

\* The directories of image files: file name -> [dt, fault]
PhotoDirs ==
    LET A == { [dt |-> t, fault |-> "none"] : t \in {T1, T3} }
        B == { [dt |-> t, fault |-> "none"] : t \in Times }
             \cup { [dt |-> T2, fault |-> f] : f \in Faults }
    IN  { <<>> }
        \cup { (f_a_jpg :> x) : x \in A }
        \cup { (f_b_jpg :> y) : y \in B }
        \cup { (f_a_jpg :> x) @@ (f_b_jpg :> y) : x \in A, y \in B }
        \cup { (f_a_jpg :> [dt |-> T1, fault |-> "none"])
                 @@ (f_a_x_jpg :> [dt |-> T2, fault |-> "none"]),
               (f_a_b_jpg :> [dt |-> T1, fault |-> "none"]),
               (f_a_jpg :> [dt |-> T1, fault |-> "none"])
                 @@ (f_a_b_jpg :> [dt |-> T1, fault |-> "none"]) }

\* The albums a manifest is made of: path, name, kind and display order
AlbumPool ==
    << [path |-> s_favorites, name |-> s_Favorites, kind |-> "None", display |-> "FromFirst"],
       [path |-> s_alps, name |-> s_Zermatt, kind |-> "None", display |-> "FromLast"],
       [path |-> s_lake, name |-> s_Lake, kind |-> "Location", display |-> "FromFirst"],
       [path |-> s_peak, name |-> s_Peak, kind |-> "Location", display |-> "FromLast"],
       [path |-> s_xmas, name |-> s_Xmas, kind |-> "Day", display |-> "FromFirst"],
       [path |-> s_yule, name |-> s_Yule, kind |-> "Day", display |-> "FromLast"],
       [path |-> s_all, name |-> s_Everything, kind |-> "None", display |-> "FromFirst"],
       [path |-> DatePath(D2), name |-> s_Sunday, kind |-> "None", display |-> "FromFirst"],
       [path |-> s_All_photos, name |-> s_Everything, kind |-> "None", display |-> "FromFirst"] >>

PhotoLists == { <<s_a>>, <<s_b>>, <<s_a, s_b>> }

\* One (path, ParsedAlbum) pair of albums.json
Entry(t, photos, cover) ==
    [path |-> t.path,
     info |-> [name |-> t.name, kind |-> t.kind, display |-> t.display,
               cover_img |-> cover, photos |-> photos]]

\* The album lists: empty, one album, or two albums of the pool
ManifestLists ==
    { <<>>,
      \* one path declared twice
      << Entry(AlbumPool[2], <<s_a>>, s_a),
         Entry([path |-> s_alps, name |-> s_Peak, kind |-> "Location",
                display |-> "FromFirst"], <<s_a, s_b>>, s_b) >>,
      \* names that are not URI encoded to themselves: an album path, a
      \* listed photo, a cover image
      << Entry([path |-> s_a_b, name |-> s_Zermatt, kind |-> "None",
                display |-> "FromFirst"], <<s_a>>, s_a) >>,
      << Entry(AlbumPool[1], <<s_a>>, s_a),
         Entry([path |-> s_a_b, name |-> s_Zermatt, kind |-> "None",
                display |-> "FromFirst"], <<s_a>>, s_a) >>,
      << Entry(AlbumPool[2], <<s_a, s_a_b>>, s_a) >>,
      << Entry(AlbumPool[2], <<s_a>>, s_a_b) >> }
    \cup { << Entry(AlbumPool[i], l, c) >> :
             i \in DOMAIN AlbumPool, l \in PhotoLists, c \in {s_a, s_b} }
    \cup { << Entry(AlbumPool[ij[1]], l, l[1]), Entry(AlbumPool[ij[2]], m, m[1]) >> :
             ij \in { x \in (DOMAIN AlbumPool) \X (DOMAIN AlbumPool) : x[1] < x[2] },
             l \in PhotoLists, m \in PhotoLists }

\* albums.json: a document that does not parse, or a list of albums
Manifests ==
    { [wellformed |-> FALSE, albums |-> <<>>] }
    \cup { [wellformed |-> TRUE, albums |-> m] : m \in ManifestLists }

Disks == [manifest : Manifests, files : PhotoDirs]

---------------------------------------------------------------------------
(* PhotosState::new, step 1: manifest, membership, discovery               *)

ALL_ALBUM_PATH == s_all
ALL_ALBUM_NAME == s_All_photos
FAVORITES_ALBUM_NAME == s_favorites

Ok(v) == [ok |-> TRUE, val |-> v]
Err(e) == [ok |-> FALSE, err |-> e]

\* PhotosState::get_albums_info: read and parse albums.json
get_albums_info(d) ==
    IF ~d.manifest.wellformed THEN Err([kind |-> "manifest"]) ELSE Ok(d.manifest.albums)

\* parsed.into_iter().collect::<HashMap<_, _>>(): a later pair replaces an
\* earlier one of the same path
CollectAlbums(parsed) ==
    [ q \in { parsed[i].path : i \in DOMAIN parsed } |->
        LET last == CHOOSE i \in DOMAIN parsed :
                        /\ parsed[i].path = q
                        /\ \A j \in DOMAIN parsed : parsed[j].path = q => j <= i
        IN  parsed[last].info ]

\* if all_albums.contains_key(ALL_ALBUM_NAME) { bail!(..) }
ReservedNameCheck(all) == ALL_ALBUM_NAME \in DOMAIN all

\* The AlbumReferences pushed for photo `p`, the albums visited in order `ord`
RECURSIVE RefsOf(_, _, _)
RefsOf(all, ord, p) ==
    IF ord = <<>> THEN <<>>
    ELSE LET q == Head(ord)
             hits == SelectSeq(all[q].photos, LAMBDA x : x = p)
         IN  [ i \in 1..Len(hits) |-> [path |-> q, name |-> all[q].name] ]
             \o RefsOf(all, Tail(ord), p)

\* Membership, had the cover images not been entered into album_membership
Membership_without_covers(all, ord) ==
    LET bad == { i \in DOMAIN ord : ~is_uri_idempotent(ord[i]) }
    IN  IF bad # {}
        THEN Err([kind |-> "bad_album_name",
                  path |-> ord[CHOOSE i \in bad : \A j \in bad : i <= j]])
        ELSE Ok([ p \in UNION { Range(all[q].photos) : q \in DOMAIN all }
                    |-> RefsOf(all, ord, p) ])

\* The loop over all_albums that fills album_membership; `ord` is the
\* iteration order of the HashMap.  Every cover image gets an entry as well.
Membership(all, ord) ==
    LET bad == { i \in DOMAIN ord : ~is_uri_idempotent(ord[i]) }
    IN  IF bad # {}
        THEN Err([kind |-> "bad_album_name",
                  path |-> ord[CHOOSE i \in bad : \A j \in bad : i <= j]])
        ELSE Ok([ p \in UNION { Range(all[q].photos) \cup {all[q].cover_img} : q \in DOMAIN all }
                    |-> RefsOf(all, ord, p) ])

\* glob(): the matching paths, in alphabetical order
Glob(d) ==
    CHOOSE p \in Perms(DOMAIN d.files) :
        \A i, j \in DOMAIN p : i < j => StrCmp(p[i], p[j]) < 0

\* Discover, had a file whose name is not URI encoded to itself been left
\* out instead of failing the build
RECURSIVE Discover_skipping_bad_names(_, _, _)
Discover_skipping_bad_names(paths, n, membership) ==
    IF n = 0 THEN Ok([cands |-> <<>>, left |-> membership])
    ELSE LET prev == Discover_skipping_bad_names(paths, n - 1, membership)
             file_string == file_prefix(paths[n])
         IN  IF ~prev.ok THEN prev
             ELSE IF ~is_uri_idempotent(file_string)
             THEN prev
             ELSE LET left == prev.val.left
                      albums == IF file_string \in DOMAIN left THEN left[file_string] ELSE <<>>
                  IN  Ok([cands |-> Append(prev.val.cands,
                                           [path |-> paths[n], file_string |-> file_string,
                                            albums |-> albums]),
                          left |-> [ k \in (DOMAIN left) \ {file_string} |-> left[k] ]])

\* The closure mapped over the glob results, up to and including file number
\* n: the candidates so far and what is left of album_membership
RECURSIVE Discover(_, _, _)
Discover(paths, n, membership) ==
    IF n = 0 THEN Ok([cands |-> <<>>, left |-> membership])
    ELSE LET prev == Discover(paths, n - 1, membership)
             file_string == file_prefix(paths[n])
         IN  IF ~prev.ok THEN prev
             ELSE IF ~is_uri_idempotent(file_string)
             THEN Err([kind |-> "bad_file_name", file |-> paths[n]])
             ELSE LET left == prev.val.left
                      albums == IF file_string \in DOMAIN left THEN left[file_string] ELSE <<>>
                  IN  Ok([cands |-> Append(prev.val.cands,
                                           [path |-> paths[n], file_string |-> file_string,
                                            albums |-> albums]),
                          left |-> [ k \in (DOMAIN left) \ {file_string} |-> left[k] ]])

\* The file-system operations of discovery (lines 434-461), had the closure
\* over the glob results opened each image file
GlobOps_reading_files(d) ==
    { [op |-> "glob"] } \cup { [op |-> "read", file |-> f] : f \in DOMAIN d.files }

\* The file-system operations of discovery (lines 434-461): the glob only
GlobOps(d) == { [op |-> "glob"] }

\* Lines 387-471 as a whole: the state of `new` when the parallel phase
\* starts, or the error it returns before
Step1(d, ord) ==
    LET parsed == get_albums_info(d)
        all == CollectAlbums(parsed.val)
        names == [ i \in DOMAIN parsed.val |-> parsed.val[i].path ]
        mem == Membership(all, ord)
        found == Discover(Glob(d), Len(Glob(d)), mem.val)
        log1 == { [op |-> "read_manifest"] }
        log2 == log1 \cup GlobOps(d)
    IN  IF ~parsed.ok THEN [res |-> parsed, log |-> log1, all |-> <<>>, names |-> <<>>]
        ELSE IF ReservedNameCheck(all)
        THEN [res |-> Err([kind |-> "reserved_name"]), log |-> log1, all |-> all, names |-> names]
        ELSE IF ~mem.ok THEN [res |-> mem, log |-> log1, all |-> all, names |-> names]
        ELSE IF ~found.ok THEN [res |-> found, log |-> log2, all |-> all, names |-> names]
        ELSE IF DOMAIN found.val.left # {}
        THEN [res |-> Err([kind |-> "dangling", missing |-> DOMAIN found.val.left]),
              log |-> log2, all |-> all, names |-> names]
        ELSE [res |-> Ok(found.val.cands), log |-> log2, all |-> all, names |-> names]

---------------------------------------------------------------------------
(* PhotosState::process_photo                                              *)

\* fs::read(&file_path)
fs_read(d, path) ==
    IF d.files[path].fault = "io" THEN Err([kind |-> "io"]) ELSE Ok(d.files[path])

\* PhotoExifInfo::from_img_data, as far as the index depends on it
from_img_data(img_data) ==
    IF img_data.fault = "exif" THEN Err([kind |-> "exif"])
    ELSE Ok([actual_datetime |-> img_data.dt])

\* PhotosState::hash: the digest of some bytes, as a URL-safe string.  The
\* bytes of a file are told apart by the instant in them; `which` tells the
\* file's bytes ("f") from those of its WEBP rendering ("w").
hash(which, img_data) ==
    (IF which = "f" THEN <<102>> ELSE <<119>>) \o DecNoPad(img_data.dt.utc)

\* PhotosState::make_smaller_img, as far as the index depends on it
make_smaller_img(img_data) ==
    IF img_data.fault = "codec" THEN Err([kind |-> "codec"])
    ELSE Ok([source |-> img_data.dt, hash |-> hash("w", img_data)])

\* fold_extract_single, had it kept the latest value instead of failing
fold_extract_last(acc, val) == Ok(Some(val))

fold_extract_single(acc, val) ==
    IF acc = None THEN Ok(Some(val)) ELSE Err([kind |-> "multiple"])

\* Iterator::try_fold(None, Self::fold_extract_single)
RECURSIVE try_fold(_, _)
try_fold(items, acc) ==
    IF items = <<>> THEN Ok(acc)
    ELSE LET r == fold_extract_single(acc, Head(items))
         IN  IF r.ok THEN try_fold(Tail(items), r.val) ELSE r

\* The indices of `albums` whose album is of kind `k`, ascending
RECURSIVE IndicesOfKind(_, _, _, _)
IndicesOfKind(albums, all, k, i) ==
    IF i > Len(albums) THEN <<>>
    ELSE (IF all[albums[i].path].kind = k THEN <<i>> ELSE <<>>)
         \o IndicesOfKind(albums, all, k, i + 1)

\* AutoDateAlbumBuilder::new
AutoDateAlbumBuilder_new(date) ==
    [path |-> DatePath(date), name |-> DateName(date), photos |-> <<>>]

\* AutoDateAlbumBuilder::reference
reference(album) == [path |-> album.path, name |-> album.name]

\* BTreeMap::insert: the value of an equal key is replaced
BTreeInsert(m, k, v) == [ x \in (DOMAIN m) \cup {k} |-> IF x = k THEN v ELSE m[x] ]

\* AutoDayAlbum, had the vacant arm not looked the path up in all_albums
AutoDayAlbum_unchecked(auto, all, dt, file_string) ==
    LET date == dt.date
        album == IF date \in DOMAIN auto THEN auto[date] ELSE AutoDateAlbumBuilder_new(date)
        filled == [album EXCEPT !.photos = BTreeInsert(album.photos, dt.utc, file_string)]
    IN  Ok([ref |-> reference(filled),
            auto |-> [ x \in (DOMAIN auto) \cup {date} |->
                         IF x = date THEN filled ELSE auto[x] ]])

\* The `None` arm of `match maybe_day_album`: the critical section on
\* auto_date_albums.  Gives the reference and the new map, or the error.
AutoDayAlbum(auto, all, dt, file_string) ==
    LET date == dt.date
    IN  IF date \notin DOMAIN auto
        THEN LET album == AutoDateAlbumBuilder_new(date)
             IN  IF album.path \in DOMAIN all
                 THEN Err([kind |-> "collision", path |-> album.path])
                 ELSE LET filled == [album EXCEPT !.photos =
                                        BTreeInsert(album.photos, dt.utc, file_string)]
                      IN  Ok([ref |-> reference(filled),
                              auto |-> [ x \in (DOMAIN auto) \cup {date} |->
                                           IF x = date THEN filled ELSE auto[x] ]])
        ELSE LET filled == [auto[date] EXCEPT !.photos =
                               BTreeInsert(auto[date].photos, dt.utc, file_string)]
             IN  Ok([ref |-> reference(filled), auto |-> [auto EXCEPT ![date] = filled]])

\* albums.sort_by(|rx, ry| rx.name.cmp(&ry.name)): a stable sort
RECURSIVE SortByName(_)
SortByName(refs) ==
    IF refs = <<>> THEN <<>>
    ELSE LET n == Len(refs)
             init == SortByName(SubSeq(refs, 1, n - 1))
             x == refs[n]
             \* x goes after every element that is not greater than it
             k == Cardinality({ i \in DOMAIN init : StrCmp(init[i].name, x.name) <= 0 })
         IN  SubSeq(init, 1, k) \o <<x>> \o SubSeq(init, k + 1, Len(init))

\* slice::binary_search_by_key(&key, |a| a.path): the loop of the standard
\* library, on the half-open range left..right.  Ok(index) or Err(index).
RECURSIVE binary_search_by_path(_, _, _, _)
binary_search_by_path(refs, key, left, right) ==
    IF left >= right THEN Err(left)
    ELSE LET mid == left + ((right - left) \div 2)
             cmp == StrCmp(refs[mid + 1].path, key)
         IN  IF cmp < 0 THEN binary_search_by_path(refs, key, mid + 1, right)
             ELSE IF cmp > 0 THEN binary_search_by_path(refs, key, left, mid)
             ELSE Ok(mid)

\* Lines 690-700: sort the remaining references, take the favorites out
ExtractFavorite(albums) ==
    LET sorted == SortByName(albums)
        favorite_idx == binary_search_by_path(sorted, FAVORITES_ALBUM_NAME, 0, Len(sorted))
    IN  IF favorite_idx.ok
        THEN [is_favorite |-> TRUE, albums |-> RemoveAt(sorted, favorite_idx.val + 1)]
        ELSE [is_favorite |-> FALSE, albums |-> sorted]

\* Lines 641-656: at most one location album (taken out of the list) and at
\* most one day album (left in the list)
ExtractLocationAndDay(albums, all) ==
    LET location_album_idx == try_fold(IndicesOfKind(albums, all, "Location", 1), None)
        rest == IF location_album_idx.val = None THEN albums
                ELSE RemoveAt(albums, Unwrap(location_album_idx.val))
        location == IF location_album_idx.val = None THEN None
                    ELSE Some(albums[Unwrap(location_album_idx.val)])
        day_idx == try_fold(IndicesOfKind(rest, all, "Day", 1), None)
    IN  IF ~location_album_idx.ok THEN Err([kind |-> "multi_location"])
        ELSE IF ~day_idx.ok THEN Err([kind |-> "multi_day"])
        ELSE Ok([albums |-> rest, location |-> location,
                 maybe_day_album |-> IF day_idx.val = None THEN None
                                     ELSE Some(rest[Unwrap(day_idx.val)])])

\* process_photo from the membership folds to its end, for a photo whose
\* bytes and Exif data have been read: [res, auto]
FinishPhoto(cand, img_data, exif_info, all, auto) ==
    LET ex == ExtractLocationAndDay(cand.albums, all)
        day == IF ex.val.maybe_day_album # None
               THEN Ok([ref |-> Unwrap(ex.val.maybe_day_album), auto |-> auto])
               ELSE AutoDayAlbum(auto, all, exif_info.actual_datetime, cand.file_string)
        fav == ExtractFavorite(ex.val.albums)
        smaller_webp == make_smaller_img(img_data)
    IN  IF ~ex.ok THEN [res |-> ex, auto |-> auto]
        ELSE IF ~day.ok THEN [res |-> day, auto |-> auto]
        ELSE IF ~smaller_webp.ok THEN [res |-> smaller_webp, auto |-> day.val.auto]
        ELSE [res |-> Ok([file_name |-> cand.file_string,
                          exif_info |-> exif_info,
                          is_favorite |-> fav.is_favorite,
                          albums |-> fav.albums,
                          location |-> ex.val.location,
                          day_album |-> day.val.ref,
                          smaller_webp |-> smaller_webp.val,
                          full_img_hash |-> hash("f", img_data)]),
              auto |-> day.val.auto]

---------------------------------------------------------------------------
(* PhotosState::new, the assembly of the snapshot (lines 514-616)          *)

\* .collect::<HashMap<_, _>>() of the (file_string, info) pairs: a later
\* pair replaces an earlier one of the same name
CollectImages(cands, res) ==
    [ id \in { cands[i].file_string : i \in DOMAIN cands } |->
        LET last == CHOOSE i \in DOMAIN cands :
                        /\ cands[i].file_string = id
                        /\ \A j \in DOMAIN cands : cands[j].file_string = id => j <= i
        IN  res[last].val ]

\* A stable sort of photo ids by capture instant: ascending if dir = 1,
\* descending if dir = -1
RECURSIVE SortByTime(_, _, _)
SortByTime(ids, images, dir) ==
    IF ids = <<>> THEN <<>>
    ELSE LET n == Len(ids)
             init == SortByTime(SubSeq(ids, 1, n - 1), images, dir)
             t == images[ids[n]].exif_info.actual_datetime.utc
             k == Cardinality({ i \in DOMAIN init :
                     dir * images[init[i]].exif_info.actual_datetime.utc <= dir * t })
         IN  SubSeq(init, 1, k) \o <<ids[n]>> \o SubSeq(init, k + 1, Len(init))

\* BTreeMap::values(): the values in ascending key order
BTreeValues(m) ==
    LET keys == CHOOSE p \in Perms(DOMAIN m) : \A i, j \in DOMAIN p : i < j => p[i] < p[j]
    IN  [ i \in DOMAIN keys |-> m[keys[i]] ]

\* impl From<ParsedAlbumKind> for AlbumKind, under Option::map
AlbumKindOf(kind) == kind

\* The Album of a manifest entry
ManifestAlbum(path, parsed) ==
    [name |-> parsed.name, path |-> path, kind |-> AlbumKindOf(parsed.kind),
     cover_img |-> parsed.cover_img,
     photos |-> IF parsed.display = "FromLast" THEN Reverse(parsed.photos) ELSE parsed.photos]

\* The Album of an AutoDateAlbumBuilder
AutoAlbum(auto) ==
    LET photos == BTreeValues(auto.photos)
    IN  [name |-> auto.name, path |-> auto.path, kind |-> "Day",
         cover_img |-> photos[1], photos |-> photos]

\* all_albums mapped to Albums, chained with the auto-generated ones and
\* collected into a HashMap: of two albums with one path, the later stays
CollectAlbumMap(all, auto) ==
    LET autos == { AutoAlbum(auto[d]) : d \in DOMAIN auto }
    IN  [ q \in (DOMAIN all) \cup { a.path : a \in autos } |->
            IF \E a \in autos : a.path = q
            THEN CHOOSE a \in autos : a.path = q
            ELSE ManifestAlbum(q, all[q]) ]

\* AllAlbum, had the cover been the latest photo
AllAlbum_latest_cover(images_sorted) ==
    [name |-> ALL_ALBUM_NAME, path |-> ALL_ALBUM_PATH, kind |-> "All",
     cover_img |-> images_sorted[1],
     photos |-> images_sorted]

\* The "all" album of lines 567-591, from the photos sorted latest first
AllAlbum(images_sorted) ==
    [name |-> ALL_ALBUM_NAME, path |-> ALL_ALBUM_PATH, kind |-> "All",
     cover_img |-> images_sorted[(Len(images_sorted) \div 2) + 1],
     photos |-> images_sorted]

\* HashMap::insert
MapInsert(m, k, v) == [ x \in (DOMAIN m) \cup {k} |-> IF x = k THEN v ELSE m[x] ]

\* Lines 596-608: the declared albums by kind, in declaration order
AlbumsInOrder(names, albums) ==
    LET Bucket(kinds) ==
            LET sel == SelectSeq(names, LAMBDA q : albums[q].kind \in kinds)
            IN  [ i \in DOMAIN sel |-> albums[sel[i]] ]
    IN  [normal_albums |-> Bucket({"None", "All"}),
         days |-> Bucket({"Day"}),
         locations |-> Bucket({"Location"})]

\* Lines 518-616; `order` is the iteration order of `images`.  A photo id
\* that is looked up in `images` and is not there, and an index into an
\* empty list, panic.
Assemble(cands, res, all, names, auto, order) ==
    LET images == CollectImages(cands, res)
        looked_up == UNION { Range(all[q].photos) \cup {all[q].cover_img} : q \in DOMAIN all }
                     \cup UNION { Range(auto[d].photos) : d \in DOMAIN auto }
        images_sorted == SortByTime(order, images, -1)
        albums == MapInsert(CollectAlbumMap(all, auto), ALL_ALBUM_PATH, AllAlbum(images_sorted))
    IN  IF ~(looked_up \subseteq DOMAIN images) \/ images_sorted = <<>>
        THEN Err([kind |-> "panic"])
        ELSE Ok([albums |-> albums,
                 albums_in_order |-> AlbumsInOrder(names, albums),
                 images |-> images,
                 images_by_time |-> SortByTime(order, images, 1)])

---------------------------------------------------------------------------
(* The build as a state machine                                            *)

\* Nothing of the build has run
PStart ==
    /\ pc = "start"
    /\ fs_log = {}
    /\ all_albums = <<>>
    /\ all_album_paths = <<>>
    /\ candidates = <<>>
    /\ results = <<>>
    /\ auto_date_albums = <<>>
    /\ saved_error = None
    /\ build = None
    /\ PHOTOS_STATE = None
    /\ status = [thread |-> "none", queue |-> 0, seen |-> 0, sends |-> 0]

PInit ==
    /\ disk \in Disks
    /\ PStart

\* .with_context(|| format!("failed to process photo {:?}", file_string))
PhotoError(cand, e) == [kind |-> "photo", file |-> cand.file_string, cause |-> e]

\* The error that the parallel collect keeps: the first one that arrives
\* thread::spawn of the progress thread, with the channel empty
spawn(st) == [st EXCEPT !.thread = "running"]

\* `let _ = tx.send(())`: the message is queued unless the receiver is gone
send(st) ==
    [st EXCEPT !.sends = @ + 1,
               !.queue = IF st.thread = "running" THEN @ + 1 ELSE @]

\* status.join() has returned: the thread and the channel are gone
joined == [thread |-> "joined", queue |-> 0, seen |-> 0, sends |-> 0]

SaveError(saved, e) == IF saved = None THEN Some(e) ELSE saved

\* PhotosState::new up to the start of the parallel phase (lines 387-493)
Prepare ==
    /\ pc = "start"
    /\ LET parsed == get_albums_info(disk)
           orders == IF parsed.ok THEN Perms(DOMAIN CollectAlbums(parsed.val)) ELSE { <<>> }
       IN  \E ord \in orders :
             LET s == Step1(disk, ord)
             IN  /\ fs_log' = s.log
                 /\ all_albums' = s.all
                 /\ all_album_paths' = s.names
                 /\ IF s.res.ok
                    THEN /\ candidates' = s.res.val
                         /\ results' = [ i \in DOMAIN s.res.val |-> [status |-> "pending"] ]
                         /\ pc' = "par"
                         /\ build' = build
                         /\ status' = spawn(status)
                    ELSE /\ candidates' = candidates
                         /\ results' = results
                         /\ pc' = "returned"
                         /\ build' = Some(s.res)
                         /\ status' = status
    /\ UNCHANGED <<disk, auto_date_albums, saved_error, PHOTOS_STATE>>

\* A worker takes photo i: fs::read and PhotoExifInfo::from_img_data
ReadPhoto(i) ==
    /\ pc = "par"
    /\ results[i].status = "pending"
    /\ LET cand == candidates[i]
           img_data == fs_read(disk, cand.path)
           exif_info == from_img_data(img_data.val)
           failed == IF ~img_data.ok THEN img_data ELSE exif_info
       IN  /\ fs_log' = fs_log \cup { [op |-> "read", file |-> cand.path] }
           /\ IF img_data.ok /\ exif_info.ok
              THEN /\ results' = [results EXCEPT ![i] =
                          [status |-> "read", img_data |-> img_data.val,
                           exif_info |-> exif_info.val]]
                   /\ saved_error' = saved_error
                   /\ status' = status
              ELSE /\ results' = [results EXCEPT ![i] =
                          [status |-> "done", res |-> Err(PhotoError(cand, failed.err))]]
                   /\ saved_error' = SaveError(saved_error, PhotoError(cand, failed.err))
                   /\ status' = send(status)
    /\ UNCHANGED <<disk, pc, all_albums, all_album_paths, candidates, auto_date_albums,
                   build, PHOTOS_STATE>>

\* The worker of photo i runs the rest of process_photo and the closure
ProcessPhoto(i) ==
    /\ pc = "par"
    /\ results[i].status = "read"
    /\ LET cand == candidates[i]
           out == FinishPhoto(cand, results[i].img_data, results[i].exif_info,
                              all_albums, auto_date_albums)
       IN  /\ auto_date_albums' = out.auto
           /\ status' = send(status)
           /\ IF out.res.ok
              THEN /\ results' = [results EXCEPT ![i] = [status |-> "done", res |-> out.res]]
                   /\ saved_error' = saved_error
              ELSE /\ results' = [results EXCEPT ![i] =
                          [status |-> "done", res |-> Err(PhotoError(cand, out.res.err))]]
                   /\ saved_error' = SaveError(saved_error, PhotoError(cand, out.res.err))
    /\ UNCHANGED <<disk, pc, fs_log, all_albums, all_album_paths, candidates,
                   build, PHOTOS_STATE>>

\* Once an error is saved, the parallel iterator drops items not yet taken
SkipPhoto(i) ==
    /\ pc = "par"
    /\ results[i].status = "pending"
    /\ saved_error # None
    /\ results' = [results EXCEPT ![i] = [status |-> "skipped"]]
    /\ UNCHANGED <<disk, pc, fs_log, all_albums, all_album_paths, candidates,
                   auto_date_albums, saved_error, build, PHOTOS_STATE, status>>

\* Finish, had the collect kept the photos that succeeded and dropped the rest
Finish_keeping_successes ==
    /\ pc = "par"
    /\ \A i \in DOMAIN results : results[i].status \in {"done", "skipped"}
    /\ status.thread \in {"exited", "panicked"}
    /\ status' = joined
    /\ LET idx == SelectSeq([ i \in DOMAIN candidates |-> i ],
                            LAMBDA i : results[i].status = "done" /\ results[i].res.ok)
           cands == [ k \in DOMAIN idx |-> candidates[idx[k]] ]
           res == [ k \in DOMAIN idx |-> results[idx[k]].res ]
       IN  \E order \in Perms({ cands[k].file_string : k \in DOMAIN cands }) :
               build' = Some(Assemble(cands, res, all_albums, all_album_paths,
                                      auto_date_albums, order))
    /\ pc' = "returned"
    /\ UNCHANGED <<disk, fs_log, all_albums, all_album_paths, candidates, results,
                   auto_date_albums, saved_error, PHOTOS_STATE>>

\* .collect::<Result<Vec<_>>>() returns, and `new` runs to its end
Finish ==
    /\ pc = "par"
    /\ \A i \in DOMAIN results : results[i].status \in {"done", "skipped"}
    /\ status.thread \in {"exited", "panicked"}
    /\ status' = joined
    /\ IF saved_error # None
       THEN build' = Some(Err(Unwrap(saved_error)))
       ELSE \E order \in Perms({ candidates[i].file_string : i \in DOMAIN candidates }) :
               build' = Some(Assemble(candidates, [ i \in DOMAIN results |-> results[i].res ],
                                      all_albums, all_album_paths, auto_date_albums, order))
    /\ pc' = "returned"
    /\ UNCHANGED <<disk, fs_log, all_albums, all_album_paths, candidates, results,
                   auto_date_albums, saved_error, PHOTOS_STATE>>

\* The parallel iterator is over and its sender handles are dropped, had
\* `new` kept a sender handle of its own
SendersDropped_never == FALSE

\* The parallel iterator is over and with it every clone of tx is dropped
SendersDropped ==
    pc = "par" /\ \A i \in DOMAIN results : results[i].status \in {"done", "skipped"}

\* The progress thread: rx.recv() returns a signal, seen += 1, and the
\* counter is printed
StatusRecv ==
    /\ status.thread = "running"
    /\ status.queue > 0
    /\ status' = [status EXCEPT !.queue = @ - 1, !.seen = @ + 1]
    /\ UNCHANGED <<disk, pc, fs_log, all_albums, all_album_paths, candidates, results,
                   auto_date_albums, saved_error, build, PHOTOS_STATE>>

\* The progress thread: rx.recv() fails on the empty channel without
\* senders, and the loop breaks
StatusExit ==
    /\ status.thread = "running"
    /\ status.queue = 0
    /\ SendersDropped
    /\ status' = [status EXCEPT !.thread = "exited"]
    /\ UNCHANGED <<disk, pc, fs_log, all_albums, all_album_paths, candidates, results,
                   auto_date_albums, saved_error, build, PHOTOS_STATE>>

\* The progress thread: print! panics when stdout cannot be written; rx is
\* dropped with what is queued
StatusPanic ==
    /\ status.thread = "running"
    /\ status' = [status EXCEPT !.thread = "panicked", !.queue = 0]
    /\ UNCHANGED <<disk, pc, fs_log, all_albums, all_album_paths, candidates, results,
                   auto_date_albums, saved_error, build, PHOTOS_STATE>>

\* Initialize, had the error arm installed an empty index and gone on
Initialize_surviving_error ==
    /\ pc = "returned"
    /\ PHOTOS_STATE' = Some(IF Unwrap(build).ok THEN Unwrap(build).val
                            ELSE [albums |-> <<>>, images |-> <<>>, images_by_time |-> <<>>,
                                  albums_in_order |-> AlbumsInOrder(<<>>, <<>>)])
    /\ pc' = "serving"
    /\ UNCHANGED <<disk, fs_log, all_albums, all_album_paths, candidates, results,
                   auto_date_albums, saved_error, build, status>>

\* lazy_static STATE: the snapshot is installed, or the process exits
Initialize ==
    /\ pc = "returned"
    /\ IF Unwrap(build).ok
       THEN /\ PHOTOS_STATE' = Some(Unwrap(build).val)
            /\ pc' = "serving"
       ELSE /\ PHOTOS_STATE' = PHOTOS_STATE
            /\ pc' = "exited"
    /\ UNCHANGED <<disk, fs_log, all_albums, all_album_paths, candidates, results,
                   auto_date_albums, saved_error, build, status>>

UIdle ==
    /\ blog_disk = <<>>
    /\ BLOG_STATE = 0
    /\ heap = <<>>
    /\ listener = <<>>
    /\ new_state = None
    /\ readers = <<>>
    /\ log = <<>>

\* No read request has been served
RIdle ==
    /\ request = None
    /\ response = None

\* No function is being followed
FIdle ==
    /\ call = None
    /\ ret = None

Init == PInit /\ UIdle /\ RIdle /\ FIdle

Next ==
    \/ Prepare /\ UNCHANGED <<uvars, rvars, fvars>>
    \/ \E i \in DOMAIN results : ReadPhoto(i) /\ UNCHANGED <<uvars, rvars, fvars>>
    \/ \E i \in DOMAIN results : ProcessPhoto(i) /\ UNCHANGED <<uvars, rvars, fvars>>
    \/ \E i \in DOMAIN results : SkipPhoto(i) /\ UNCHANGED <<uvars, rvars, fvars>>
    \/ StatusRecv /\ UNCHANGED <<uvars, rvars, fvars>>
    \/ StatusExit /\ UNCHANGED <<uvars, rvars, fvars>>
    \/ StatusPanic /\ UNCHANGED <<uvars, rvars, fvars>>
    \/ Finish /\ UNCHANGED <<uvars, rvars, fvars>>
    \/ Initialize /\ UNCHANGED <<uvars, rvars, fvars>>

Spec == Init /\ [][Next]_vars

\* The directories the progress thread is followed on: no album declared
ProgressDisks == { d \in Disks : d.manifest.wellformed /\ d.manifest.albums = <<>> }

InitProgress == disk \in ProgressDisks /\ PStart /\ UIdle /\ RIdle /\ FIdle

\* The steps the threads of the build take when they are scheduled: every
\* step but the panic of the progress thread
Scheduled ==
    /\ \/ Prepare
       \/ \E i \in DOMAIN results : ReadPhoto(i)
       \/ \E i \in DOMAIN results : ProcessPhoto(i)
       \/ \E i \in DOMAIN results : SkipPhoto(i)
       \/ StatusRecv
       \/ StatusExit
       \/ Finish
       \/ Initialize
    /\ UNCHANGED <<uvars, rvars, fvars>>

\* The build with every thread scheduled as long as it can take a step
SpecProgress == InitProgress /\ [][Next]_vars /\ WF_vars(Scheduled)

---------------------------------------------------------------------------
(* The photo routes: requests against the published snapshot               *)

s_zz == <<122,122>>                                       \* "zz"
s_small == <<115,109,97,108,108>>                         \* "small"
s_full == <<102,117,108,108>>                             \* "full"
s_huge == <<104,117,103,101>>                             \* "huge"
s_jpg == <<46,106,112,103>>                               \* ".jpg"
s_old == <<111,108,100>>                                  \* "old"

\* What a handler produces: a rendered value, a redirect, an error status,
\* or a panic
Dont(v) == [kind |-> "Dont", val |-> v]
Redirect(new_url, is_permanent) ==
    [kind |-> "Redirect", val |-> [new_url |-> new_url, is_permanent |-> is_permanent]]
Status(code) == [kind |-> "Status", val |-> [status |-> code]]
Panic == [kind |-> "Panic", val |-> [status |-> "panic"]]

\* Option::unwrap_or_default on an Option<String>
unwrap_or_default(o) == IF o = None THEN <<>> ELSE Unwrap(o)

\* PhotosState::index_context: `self.albums[FAVORITES_ALBUM_NAME]`
index_context(state) ==
    IF FAVORITES_ALBUM_NAME \in DOMAIN state.albums
    THEN Dont([favorites |-> state.albums[FAVORITES_ALBUM_NAME]])
    ELSE Panic

\* PhotosState::album_context under album_page: None is a 404
album_context(state, name) ==
    IF name \in DOMAIN state.albums
    THEN Dont([album |-> state.albums[name]])
    ELSE Status("NotFound")

\* The positions of `img` in img_list (the Arcs are compared by pointer; a
\* photo id has one Arc)
Positions(img_list, img) == { i \in DOMAIN img_list : img_list[i] = img }

\* PhotosState::img_page_context
img_page_context(state, img, album) ==
    IF img \notin DOMAIN state.images THEN Status("NotFound")
    ELSE IF album # None /\ Unwrap(album) \notin DOMAIN state.albums
    THEN Redirect([route |-> "img_page", name |-> img, arg |-> Some(<<>>), rev |-> None],
                  FALSE)
    ELSE LET img_list == IF album = None THEN state.images_by_time
                         ELSE state.albums[Unwrap(album)].photos
             found == Positions(img_list, img)
         IN  IF found = {} THEN Panic
             ELSE LET idx == CHOOSE i \in found : \A j \in found : i <= j
                  IN  Dont([album |-> album,
                            img |-> img,
                            previous |-> IF idx = 1 THEN None ELSE Some(img_list[idx - 1]),
                            next |-> IF idx + 1 \in DOMAIN img_list
                                     THEN Some(img_list[idx + 1]) ELSE None])

\* Path::set_extension drops what follows the last '.', a leading '.' apart
file_stem(name) ==
    LET dots == { i \in 2..Len(name) : name[i] = 46 }
    IN  IF dots = {} THEN name
        ELSE SubSeq(name, 1, (CHOOSE i \in dots : \A j \in dots : j <= i) - 1)

\* full_img_path: the image directory joined with the name, extension "jpg"
full_img_path(img_name) == file_stem(img_name) \o s_jpg

\* The route img, had every redirect been permanent
img_always_permanent(state, d, name, size, rev) ==
    LET sz == unwrap_or_default(size)
        is_full == sz = s_full
        image == state.images[name]
        target_hash == IF is_full THEN image.full_img_hash ELSE image.smaller_webp.hash
    IN  IF sz \notin {s_full, s_small} THEN Status("BadRequest")
        ELSE IF name \notin DOMAIN state.images THEN Status("NotFound")
        ELSE IF target_hash # unwrap_or_default(rev)
        THEN Redirect([route |-> "img", name |-> name, arg |-> Some(sz),
                       rev |-> Some(target_hash)],
                      TRUE)
        ELSE IF ~is_full THEN Dont([source |-> "InMem", img |-> image.smaller_webp])
        ELSE IF full_img_path(name) \in DOMAIN d.files
        THEN Dont([source |-> "File", img |-> full_img_path(name)])
        ELSE Status("InternalServerError")

\* The route img
img(state, d, name, size, rev) ==
    LET sz == unwrap_or_default(size)
        is_full == sz = s_full
        image == state.images[name]
        target_hash == IF is_full THEN image.full_img_hash ELSE image.smaller_webp.hash
    IN  IF sz \notin {s_full, s_small} THEN Status("BadRequest")
        ELSE IF name \notin DOMAIN state.images THEN Status("NotFound")
        ELSE IF target_hash # unwrap_or_default(rev)
        THEN Redirect([route |-> "img", name |-> name, arg |-> Some(sz),
                       rev |-> Some(target_hash)],
                      rev # None)
        ELSE IF ~is_full THEN Dont([source |-> "InMem", img |-> image.smaller_webp])
        ELSE IF full_img_path(name) \in DOMAIN d.files
        THEN Dont([source |-> "File", img |-> full_img_path(name)])
        ELSE Status("InternalServerError")

\* The directories and manifests the requests are served from
ReadDirs ==
    { (f_a_jpg :> [dt |-> T1, fault |-> "none"]) @@ (f_b_jpg :> [dt |-> T1, fault |-> "none"]),
      (f_a_jpg :> [dt |-> T1, fault |-> "none"]) @@ (f_b_jpg :> [dt |-> T3, fault |-> "none"]),
      (f_a_jpg :> [dt |-> T1, fault |-> "none"]),
      (f_a_x_jpg :> [dt |-> T1, fault |-> "none"]),
      \* a file that cannot be read: nothing is published
      (f_a_jpg :> [dt |-> T1, fault |-> "io"]) @@ (f_b_jpg :> [dt |-> T1, fault |-> "none"]) }

ReadManifests ==
    { <<>>,
      << Entry(AlbumPool[1], <<s_a>>, s_a) >>,
      << Entry(AlbumPool[1], <<s_a, s_b>>, s_a) >>,
      << Entry(AlbumPool[1], <<s_a>>, s_a), Entry(AlbumPool[2], <<s_a, s_b>>, s_b) >> }

ReadDisks ==
    [manifest : { [wellformed |-> TRUE, albums |-> m] : m \in ReadManifests },
     files : ReadDirs]

\* The inputs of the requests
ReqNames == { s_a, s_b, s_zz }
ReqAlbums == { None, Some(s_favorites), Some(s_alps), Some(ALL_ALBUM_PATH),
               Some(DatePath(D1)), Some(s_zz), Some(<<>>) }
ReqSizes == { None, Some(s_small), Some(s_full), Some(s_huge) }
ReqRevs(state) ==
    { None, Some(s_old), Some(<<>>) }
    \cup { Some(state.images[n].full_img_hash) : n \in DOMAIN state.images }
    \cup { Some(state.images[n].smaller_webp.hash) : n \in DOMAIN state.images }

Req(route, name, arg, rev) == [route |-> route, name |-> name, arg |-> arg, rev |-> rev]

\* GET /photos/
IndexPage ==
    /\ pc = "serving"
    /\ request' = Some(Req("index", <<>>, None, None))
    /\ response' = Some(index_context(Unwrap(PHOTOS_STATE)))

\* GET /photos/album/<name>
AlbumPage(name) ==
    /\ pc = "serving"
    /\ request' = Some(Req("album_page", name, None, None))
    /\ response' = Some(album_context(Unwrap(PHOTOS_STATE), name))

\* GET /photos/view/<name>?<album>
ImgPage(name, album) ==
    /\ pc = "serving"
    /\ request' = Some(Req("img_page", name, album, None))
    /\ response' = Some(img_page_context(Unwrap(PHOTOS_STATE), name, album))

\* GET /photos/img-file/<name>?<size>&<rev>
Img(name, size, rev) ==
    /\ pc = "serving"
    /\ request' = Some(Req("img", name, size, rev))
    /\ response' = Some(img(Unwrap(PHOTOS_STATE), disk, name, size, rev))

\* Between two requests, the file NamedFile::open is to find leaves the
\* directory
ImageFileRemoved(f) ==
    /\ pc = "serving"
    /\ request' = None
    /\ response' = None
    /\ f \in DOMAIN disk.files
    /\ disk' = [disk EXCEPT !.files = [ g \in (DOMAIN disk.files) \ {f} |-> disk.files[g] ]]
    /\ UNCHANGED <<pc, fs_log, all_albums, all_album_paths, candidates, results,
                   auto_date_albums, saved_error, build, PHOTOS_STATE, status>>

InitRead == disk \in ReadDisks /\ PStart /\ UIdle /\ RIdle /\ FIdle

NextRead ==
    \/ Prepare /\ UNCHANGED <<uvars, rvars, fvars>>
    \/ \E i \in DOMAIN results : ReadPhoto(i) /\ UNCHANGED <<uvars, rvars, fvars>>
    \/ \E i \in DOMAIN results : ProcessPhoto(i) /\ UNCHANGED <<uvars, rvars, fvars>>
    \/ \E i \in DOMAIN results : SkipPhoto(i) /\ UNCHANGED <<uvars, rvars, fvars>>
    \/ StatusRecv /\ UNCHANGED <<uvars, rvars, fvars>>
    \/ StatusExit /\ UNCHANGED <<uvars, rvars, fvars>>
    \/ StatusPanic /\ UNCHANGED <<uvars, rvars, fvars>>
    \/ Finish /\ UNCHANGED <<uvars, rvars, fvars>>
    \/ Initialize /\ UNCHANGED <<uvars, rvars, fvars>>
    \/ IndexPage /\ UNCHANGED <<pvars, uvars, fvars>>
    \/ \E name \in { Unwrap(p) : p \in ReqAlbums \ {None} } :
          AlbumPage(name) /\ UNCHANGED <<pvars, uvars, fvars>>
    \/ \E name \in ReqNames, album \in ReqAlbums :
          ImgPage(name, album) /\ UNCHANGED <<pvars, uvars, fvars>>
    \/ \E f \in DOMAIN disk.files : ImageFileRemoved(f) /\ UNCHANGED <<uvars, fvars>>
    \/ /\ PHOTOS_STATE # None
       /\ \E name \in ReqNames, size \in ReqSizes :
             \E rev \in ReqRevs(Unwrap(PHOTOS_STATE)) :
                Img(name, size, rev) /\ UNCHANGED <<pvars, uvars, fvars>>

SpecRead == InitRead /\ [][NextRead]_vars

---------------------------------------------------------------------------
(* Properties of the build                                                 *)

Returned == build # None
BuildOk == build # None /\ Unwrap(build).ok
BuildErr == build # None /\ ~Unwrap(build).ok
Snapshot == Unwrap(build).val

\* What the directory and the manifest say, read off the disk
Declared == disk.manifest.albums
DeclaredPaths == { Declared[i].path : i \in DOMAIN Declared }
DiscoveredIds == { file_prefix(f) : f \in DOMAIN disk.files }
ReferencedIds ==
    UNION { Range(Declared[i].info.photos) \cup {Declared[i].info.cover_img} :
            i \in DOMAIN Declared }
\* Declaration i is the one all_albums keeps for its path: the last of it
Effective(i) == \A j \in DOMAIN Declared : Declared[j].path = Declared[i].path => j <= i
\* The declared albums of kind k that list photo id
AlbumsListing(id, k) ==
    { i \in DOMAIN Declared :
        Declared[i].info.kind = k /\ id \in Range(Declared[i].info.photos) }

Failed(i) == results[i].status = "done" /\ ~results[i].res.ok
Succeeded(i) == results[i].status = "done" /\ results[i].res.ok
FailedWith(i, kinds) == Failed(i) /\ results[i].res.err.cause.kind \in kinds

\* C3: if processing any one photo returns an error, the build returns an
\* error under every scheduling: no snapshot is produced or installed from
\* the photos that did succeed.
C3_FailFast ==
    (\E i \in DOMAIN results : Failed(i)) =>
        /\ Returned => BuildErr /\ Unwrap(build).err.kind = "photo"
        /\ PHOTOS_STATE = None

\* C3 witness: the build has returned with one photo failed and another
\* processed successfully
C3_Witness ==
    /\ pc = "exited"
    /\ \E i, j \in DOMAIN results : Failed(i) /\ Succeeded(j)

Reads == { e \in fs_log : e.op = "read" }
Step1Kinds == {"manifest", "reserved_name", "bad_album_name", "bad_file_name", "dangling"}
FileOf(i) == disk.files[candidates[i].path]

\* C4 as stated: every manifest and membership error, the multiple
\* location/day album errors included, is raised before any image file is read.
C4_Original ==
    /\ (BuildErr /\ Unwrap(build).err.kind \in Step1Kinds) => Reads = {}
    /\ \A i \in DOMAIN results :
         FailedWith(i, {"multi_location", "multi_day"}) => Reads = {}

\* C4 amended: manifest-parse, reserved-name, album/file name and dangling
\* reference errors are returned before any worker starts and before any
\* image file is read; a multiple location/day album error is raised by the
\* worker of that photo, after the photo's file has been read.
C4_Amended ==
    /\ (BuildErr /\ Unwrap(build).err.kind \in Step1Kinds) =>
          /\ Reads = {}
          /\ results = <<>>
          /\ auto_date_albums = <<>>
    /\ \A i \in DOMAIN results :
         FailedWith(i, {"multi_location", "multi_day"}) =>
            [op |-> "read", file |-> candidates[i].path] \in fs_log

\* C4 witness: a dangling reference is reported while the directory holds
\* image files that no worker has touched
C4_Witness ==
    /\ BuildErr /\ Unwrap(build).err.kind = "dangling"
    /\ DOMAIN disk.files # {}

\* C5 as stated: a manifest that declares an album of path "all" makes the
\* build fail.
C5_Original == (Returned /\ s_all \in DeclaredPaths) => BuildErr

Owner(i) == \A j \in 1..(i - 1) : candidates[j].file_string # candidates[i].file_string
\* The worker of photo i got as far as the membership folds
ReachedFolds(i) ==
    results[i].status = "done" /\ ~FailedWith(i, {"io", "exif"})
\* Photo i gets past the folds and has no explicit day album
NeedsAuto(i) ==
    /\ Owner(i)
    /\ Cardinality(AlbumsListing(candidates[i].file_string, "Location")) <= 1
    /\ AlbumsListing(candidates[i].file_string, "Day") = {}

C8_Original ==
    BuildOk =>
      \A id \in DOMAIN Snapshot.images :
        AlbumsListing(id, "Day") = {} =>
          LET info == Snapshot.images[id]
              q == DatePath(info.exif_info.actual_datetime.date)
              autos == { x \in DOMAIN Snapshot.albums :
                           /\ x \notin DeclaredPaths
                           /\ Snapshot.albums[x].kind = "Day"
                           /\ id \in Range(Snapshot.albums[x].photos) }
          IN  /\ info.day_album.path = q
              /\ autos = {q}

\* C9: an auto-generated day album exists only for a date whose path no
\* manifest album declares; a photo that needs one for a declared path fails
\* and fails the build; in a built snapshot every declared path still holds
\* the album declared for it (the last one, if the path is declared twice).
C9_NoCollision ==
    /\ \A d \in DOMAIN auto_date_albums : DatePath(d) \notin DeclaredPaths
    /\ \A i \in DOMAIN results :
         (NeedsAuto(i) /\ DatePath(FileOf(i).dt.date) \in DeclaredPaths) =>
            /\ ReachedFolds(i) => FailedWith(i, {"collision"})
            /\ Returned => BuildErr
    /\ BuildOk =>
         \A i \in DOMAIN Declared :
           (Declared[i].path # ALL_ALBUM_PATH /\ Effective(i)) =>
             /\ Snapshot.albums[Declared[i].path].name = Declared[i].info.name
             /\ Snapshot.albums[Declared[i].path].kind = Declared[i].info.kind

\* C9 witness: a worker has failed on the collision while another photo of
\* the same date is still to be processed
C9_Witness ==
    \E i, j \in DOMAIN results :
       /\ i # j
       /\ FailedWith(i, {"collision"})
       /\ FileOf(j).dt.date = FileOf(i).dt.date

\* C10 as stated: in a built snapshot a photo is a favorite exactly if the
\* manifest lists it in the album of path "favorites", and no reference to
\* that album is left in its generic album list.
C10_Original ==
    BuildOk =>
      \A id \in DOMAIN Snapshot.images :
        LET info == Snapshot.images[id]
            listed == \E i \in DOMAIN Declared :
                         /\ Declared[i].path = FAVORITES_ALBUM_NAME
                         /\ id \in Range(Declared[i].info.photos)
        IN  /\ info.is_favorite = listed
            /\ \A k \in DOMAIN info.albums : info.albums[k].path # FAVORITES_ALBUM_NAME

\* The list is ascending in the order str::cmp gives the names
SortedByName(refs) ==
    \A i, j \in DOMAIN refs : i < j => StrCmp(refs[i].name, refs[j].name) <= 0

\* C11 as stated: in every built photo record the generic album list holds
\* no reference to the photo's location album, none to its day album
\* (explicit or auto-generated) and none to favorites, and it is sorted
\* ascending by album display name.
C11_Original ==
    BuildOk =>
      \A id \in DOMAIN Snapshot.images :
        LET info == Snapshot.images[id]
            paths == { info.albums[i].path : i \in DOMAIN info.albums }
        IN  /\ info.location # None => Unwrap(info.location).path \notin paths
            /\ info.day_album.path \notin paths
            /\ FAVORITES_ALBUM_NAME \notin paths
            /\ SortedByName(info.albums)

\* The capture instant of a photo of the snapshot
TimeOf(id) == Snapshot.images[id].exif_info.actual_datetime.utc

AutoPaths == { auto_date_albums[d].path : d \in DOMAIN auto_date_albums }

\* C13 as stated: a manifest album declared from_first lists its photos in
\* the manifest's order, one declared from_last in the reverse of it; an
\* auto-generated day album is never reversed: its photos are ascending by
\* capture instant and its cover is its earliest photo.
C13_Original ==
    BuildOk =>
      /\ \A i \in DOMAIN Declared :
           LET a == Snapshot.albums[Declared[i].path]
           IN  a.photos = IF Declared[i].info.display = "FromLast"
                          THEN Reverse(Declared[i].info.photos)
                          ELSE Declared[i].info.photos
      /\ \A q \in AutoPaths :
           LET a == Snapshot.albums[q]
           IN  /\ \A i, j \in DOMAIN a.photos :
                     i < j => TimeOf(a.photos[i]) <= TimeOf(a.photos[j])
               /\ a.cover_img = a.photos[1]

\* The declared albums of kind k, in declaration order
DeclaredOfKind(k) == SelectSeq(Declared, LAMBDA e : e.info.kind = k)

\* The bucket holds exactly the declared albums `decl`, in that order
BucketIs(bucket, decl) ==
    /\ Len(bucket) = Len(decl)
    /\ \A i \in DOMAIN bucket :
         /\ bucket[i].path = decl[i].path
         /\ bucket[i].name = decl[i].info.name
         /\ bucket[i].kind = decl[i].info.kind

\* C14 as stated: albums_in_order holds the manifest-declared albums and
\* only those, each in the bucket of its kind and in declaration order;
\* neither an auto-generated day album nor the synthesized "all" album is in
\* any bucket.
C14_Original ==
    BuildOk =>
      /\ BucketIs(Snapshot.albums_in_order.normal_albums, DeclaredOfKind("None"))
      /\ BucketIs(Snapshot.albums_in_order.days, DeclaredOfKind("Day"))
      /\ BucketIs(Snapshot.albums_in_order.locations, DeclaredOfKind("Location"))

\* The request just served and what it was answered with
Served(route) == request # None /\ Unwrap(request).route = route
Answer == Unwrap(response)

\* The answer locates photo `name` in `list`: the element before it, none
\* if it is first, and the element after it, none if it is last
Located(name, list, ans) ==
    /\ ans.kind = "Dont"
    /\ ans.val.img = name
    /\ \E idx \in DOMAIN list :
          /\ list[idx] = name
          /\ ans.val.previous = (IF idx = 1 THEN None ELSE Some(list[idx - 1]))
          /\ ans.val.next = (IF idx = Len(list) THEN None ELSE Some(list[idx + 1]))

\* C15: a photo page request for a known photo is answered with the photo's
\* neighbours in the global ascending-by-time sequence when no album is
\* given and in the album's photo list when a known album is given; with an
\* album that is not in the snapshot it is answered with a non-permanent
\* redirect to the same photo; for an unknown photo it is answered not-found.
C15_Original ==
    Served("img_page") =>
        LET state == Unwrap(PHOTOS_STATE)
            name == Unwrap(request).name
            album == Unwrap(request).arg
        IN  IF name \notin DOMAIN state.images
            THEN Answer = Status("NotFound")
            ELSE IF album = None
            THEN Located(name, state.images_by_time, Answer)
            ELSE IF Unwrap(album) \in DOMAIN state.albums
            THEN Located(name, state.albums[Unwrap(album)].photos, Answer)
            ELSE /\ Answer.kind = "Redirect"
                 /\ ~Answer.val.is_permanent
                 /\ Answer.val.new_url.route = "img_page"
                 /\ Answer.val.new_url.name = name
                 /\ Answer.val.new_url.arg \in { None, Some(<<>>) }

\* C16: every read request against a published snapshot (index page, album
\* page, photo page, image bytes) is answered with a successful response, a
\* not-found or a redirect: none panics or ends in an internal error.
C16_Original ==
    (request # None) =>
        \/ Answer.kind \in { "Dont", "Redirect" }
        \/ Answer = Status("NotFound")

\* The image request just served, when it names a known photo and a valid
\* size
ServedImg ==
    /\ Served("img")
    /\ Unwrap(request).name \in DOMAIN Unwrap(PHOTOS_STATE).images
    /\ Unwrap(request).arg \in { Some(s_small), Some(s_full) }

\* The current content hash of the size the request selects
CurrentHash ==
    LET image == Unwrap(PHOTOS_STATE).images[Unwrap(request).name]
    IN  IF Unwrap(request).arg = Some(s_full) THEN image.full_img_hash
        ELSE image.smaller_webp.hash

\* The canonical URL of the image the request names
Canonical == Req("img", Unwrap(request).name, Unwrap(request).arg, Some(CurrentHash))

\* An image request with any other revision than the current hash is
\* redirected to the canonical URL, permanently iff a revision was supplied
RedirectsStale ==
    (ServedImg /\ Unwrap(request).rev # Some(CurrentHash)) =>
        Answer = Redirect(Canonical, Unwrap(request).rev # None)

\* An image request for the small size with the current hash is answered
\* with the in-memory thumbnail
ServesSmall ==
    (ServedImg /\ Unwrap(request).rev = Some(CurrentHash)
               /\ Unwrap(request).arg = Some(s_small)) =>
        Answer = Dont([source |-> "InMem",
                       img |-> Unwrap(PHOTOS_STATE).images[Unwrap(request).name].smaller_webp])

BadFileIds == { id \in DiscoveredIds : ~is_uri_idempotent(id) }
BadManifestNames == { x \in DeclaredPaths \cup ReferencedIds : ~is_uri_idempotent(x) }

RECURSIVE SequentialRun(_, _, _, _)
SequentialRun(d, cands, all, n) ==
    IF n = 0 THEN [res |-> <<>>, auto |-> <<>>]
    ELSE LET prev == SequentialRun(d, cands, all, n - 1)
             img_data == fs_read(d, cands[n].path)
             exif_info == from_img_data(img_data.val)
             out == FinishPhoto(cands[n], img_data.val, exif_info.val, all, prev.auto)
         IN  IF ~img_data.ok THEN [res |-> Append(prev.res, img_data), auto |-> prev.auto]
             ELSE IF ~exif_info.ok THEN [res |-> Append(prev.res, exif_info), auto |-> prev.auto]
             ELSE [res |-> Append(prev.res, out.res), auto |-> out.auto]

\* The keys of a hash map in ascending order
KeyOrder(keys) ==
    CHOOSE p \in Perms(keys) : \A i, j \in DOMAIN p : i < j => StrCmp(p[i], p[j]) < 0

\* One build of directory and manifest d: a single worker, and every hash
\* map iterated in ascending key order
SequentialBuild(d) ==
    LET parsed == get_albums_info(d)
        s == Step1(d, KeyOrder(DOMAIN CollectAlbums(parsed.val)))
        run == SequentialRun(d, s.res.val, s.all, Len(s.res.val))
    IN  IF ~parsed.ok THEN parsed
        ELSE IF ~s.res.ok THEN s.res
        ELSE IF \E i \in DOMAIN run.res : ~run.res[i].ok THEN Err([kind |-> "photo"])
        ELSE Assemble(s.res.val, run.res, s.all, s.names, run.auto,
                      KeyOrder({ s.res.val[i].file_string : i \in DOMAIN s.res.val }))

\* What C19 compares of a snapshot: the order of the "all" album and of
\* images_by_time, every album's photo list and cover, and every photo's
\* set of albums, location, day album and favorite flag
Arrangement(state) ==
    [all |-> state.albums[ALL_ALBUM_PATH].photos,
     images_by_time |-> state.images_by_time,
     albums |-> [ q \in DOMAIN state.albums |->
                    [photos |-> state.albums[q].photos,
                     cover_img |-> state.albums[q].cover_img] ],
     membership |-> [ id \in DOMAIN state.images |->
                    [albums |-> Range(state.images[id].albums),
                     location |-> state.images[id].location,
                     day_album |-> state.images[id].day_album,
                     is_favorite |-> state.images[id].is_favorite] ]]

\* Some photos of the directory share a capture instant
SharedInstant ==
    \E f, g \in DOMAIN disk.files : f # g /\ disk.files[f].dt.utc = disk.files[g].dt.utc

\* C19: every build of one directory and manifest that yields a snapshot
\* yields the arrangement of the single-worker build of the same inputs,
\* whatever the scheduling of the workers and the iteration order of the
\* hash maps, so that any two builds agree, photos sharing a capture
\* timestamp included.
C19_Original ==
    BuildOk =>
        /\ SequentialBuild(disk).ok
        /\ Arrangement(Snapshot) = Arrangement(SequentialBuild(disk).val)

\* The photos whose closure has run to its end
Processed == { i \in DOMAIN results : results[i].status = "done" }

\* While the progress thread exists: one send per processed photo, failed
\* or not; no more signals received or queued than sent; the counter within
\* the number of discovered photos; and no processing error unless a photo
\* failed
ProgressCounts ==
    /\ status.thread \in {"running", "exited", "panicked"} =>
          /\ status.sends = Cardinality(Processed)
          /\ status.seen + status.queue <= status.sends
          /\ status.seen <= Len(candidates)
    /\ (\A i \in DOMAIN results : ~Failed(i)) => saved_error = None

\* C20: each worker sends one completion signal per photo it processes,
\* failed or not, and a failed send is no processing error; the counter of
\* the progress thread never exceeds the number of discovered photos; and
\* once the thread is started, the parallel phase ends, the thread exits and
\* the join on it returns.
C20_Terminates ==
    /\ []ProgressCounts
    /\ (status.thread = "running") ~> (status.thread = "joined")

\* C20 witness: two photos were processed, one of them failed, both signals
\* were counted, and the thread has left its loop on the closed channel
C20_Witness ==
    /\ status.thread = "exited"
    /\ status.seen = 2
    /\ \E i \in DOMAIN results : Failed(i)

\* PhotosState::new has panicked
NewPanicked == build # None /\ ~Unwrap(build).ok /\ Unwrap(build).err.kind = "panic"

\* C29: PhotosState::new never panics: for every manifest and directory
\* that pass parsing, a directory without image files and an empty manifest
\* included, it returns a snapshot or an error value, every index and
\* lookup of the assembly being within bounds.
C29_Original == ~NewPanicked

\* The panic of the empty photo directory with the empty manifest
EmptyDirectoryPanics ==
    (disk.files = <<>> /\ disk.manifest.wellformed /\ disk.manifest.albums = <<>>
       /\ build # None) => NewPanicked

\* The files found by the glob and the ids given to them
Discovered == pc \in {"par", "returned", "serving"} /\ candidates # <<>>
DistinctIds ==
    \A i, j \in DOMAIN candidates :
        i # j => candidates[i].file_string # candidates[j].file_string

\* C28: two distinct files matched by the image glob never yield the same
\* photo id, so every discovered file has its own record in the snapshot,
\* and id + ".jpg" is the file the record was built from.
C28_Original ==
    Discovered =>
        /\ DistinctIds
        /\ \A i \in DOMAIN candidates :
               candidates[i].file_string \o s_jpg = candidates[i].path
        /\ (build # None /\ Unwrap(build).ok) =>
               Cardinality(DOMAIN Unwrap(build).val.images) = Len(candidates)

---------------------------------------------------------------------------
(* util::html: CodeState::map_event over the events of the parser          *)

\* pulldown_cmark::Event, as far as map_event tells events apart
Event_Start(tag, text) == [ev |-> "Start", tag |-> tag, text |-> text]
Event_End(tag, text) == [ev |-> "End", tag |-> tag, text |-> text]
Event_Text(text) == [ev |-> "Text", tag |-> "", text |-> text]
Event_Html(text) == [ev |-> "Html", tag |-> "", text |-> text]

\* enum CodeState
NotStarted == [st |-> "NotStarted", language |-> None, code |-> <<>>]
Started(language) == [st |-> "Started", language |-> language, code |-> <<>>]
AwaitingEnd(code, language) == [st |-> "AwaitingEnd", language |-> language, code |-> code]

\* Event::Html(CowStr::Borrowed(""))
empty_event == Event_Html(<<>>)

\* What the highlighter server answers for a piece of code
Highlighted(code) == <<60,105,62>> \o code \o <<60,47,105,62>>        \* "<i>" code "</i>"

\* code_block_to_html; `served` tells whether the highlighter could be used
code_block_to_html(code, language, served) ==
    LET new_code == IF language # None /\ served THEN Highlighted(code) ELSE code
        language_class ==
            IF language = None THEN <<>>
            ELSE <<32,99,108,97,115,115,61,34,108,97,110,103,117,97,103,101,45>>
                   \o Unwrap(language) \o <<34>>
    IN  <<60,112,114,101,62,60,99,111,100,101>> \o language_class \o <<62,10>>
          \o new_code \o <<10,60,47,99,111,100,101,62,60,47,112,114,101,62>>

\* CodeState::map_event: the state it leaves in `self` and the event it
\* returns, or the panic
map_event(this, event, served) ==
    IF this.st = "NotStarted" /\ event.ev = "Start" /\ event.tag = "CodeBlock"
    THEN [self |-> Started(IF event.text # <<>> THEN Some(event.text) ELSE None),
          out |-> Ok(empty_event)]
    ELSE IF this.st = "Started" /\ event.ev = "Text"
    THEN [self |-> AwaitingEnd(event.text, this.language), out |-> Ok(empty_event)]
    ELSE IF this.st = "AwaitingEnd" /\ event.ev = "Text"
    THEN [self |-> AwaitingEnd(this.code \o event.text, this.language),
          out |-> Ok(empty_event)]
    ELSE IF this.st = "AwaitingEnd" /\ event.ev = "End"
    THEN IF event.tag = "CodeBlock"
         THEN [self |-> NotStarted,
               out |-> Ok(Event_Html(code_block_to_html(this.code, this.language, served)))]
         ELSE [self |-> NotStarted, out |-> Err([kind |-> "panic"])]
    ELSE IF this.st = "NotStarted"
    THEN [self |-> NotStarted, out |-> Ok(event)]
    ELSE [self |-> NotStarted, out |-> Err([kind |-> "panic"])]

\* The events of the parser for a document: paragraphs and code blocks of
\* no, one or two pieces of text, with and without a language
CodeTexts == { <<97,10>>, <<98,10>> }                                 \* "a\n", "b\n"
Languages == { <<>>, <<114,115>> }                                    \* "", "rs"
BlockTexts == { <<>> } \cup { << Event_Text(t) >> : t \in CodeTexts }
                \cup { << Event_Text(t), Event_Text(u) >> : t \in CodeTexts, u \in CodeTexts }
Blocks ==
    { << Event_Start("CodeBlock", l) >> \o ts \o << Event_End("CodeBlock", l) >> :
        l \in Languages, ts \in BlockTexts }
    \cup { << Event_Start("Paragraph", <<>>), Event_Text(<<120>>),
              Event_End("Paragraph", <<>>) >> }
Documents == Blocks \cup { b \o c : b \in Blocks, c \in Blocks }

\* push_html over the first n events of a document: the state of the
\* CodeState and the events that came out, or the panic of map_event
RECURSIVE push_html(_, _)
push_html(events, n) ==
    IF n = 0 THEN Ok([code_state |-> NotStarted, out |-> <<>>])
    ELSE LET prev == push_html(events, n - 1)
             r == map_event(prev.val.code_state, events[n], FALSE)
         IN  IF ~prev.ok THEN prev
             ELSE IF ~r.out.ok THEN r.out
             ELSE Ok([code_state |-> r.self, out |-> Append(prev.val.out, r.out.val)])

---------------------------------------------------------------------------
(* The blog directory: the inputs of BlogState::new                        *)

f_x_md == <<120,46,109,100>>                              \* "x.md"
f_y_md == <<121,46,109,100>>                              \* "y.md"
f_x_y_md == <<120,32,121,46,109,100>>                     \* "x y.md"
s_rust == <<114,117,115,116>>                             \* "rust"
s_blog == <<98,108,111,103>>                              \* "blog"
s_photos == <<112,104,111,116,111,115>>                   \* "photos"

\* The events of the parser for the body of a post: one paragraph, and one
\* fenced code block without a line of code
BodyText == << Event_Start("Paragraph", <<>>), Event_Text(<<120>>), Event_End("Paragraph", <<>>) >>
BodyEmptyBlock == << Event_Start("CodeBlock", <<>>), Event_End("CodeBlock", <<>>) >>

\* A post file: whether header and body parse, first_published as a unix
\* time, the tags of the header, and the body
PostV1 == [parses |-> TRUE, published_unix_time |-> 1, tags |-> <<s_rust>>, body |-> BodyText]
PostV2 == [parses |-> TRUE, published_unix_time |-> 2, tags |-> <<>>, body |-> BodyText]
PostV3 == [parses |-> TRUE, published_unix_time |-> 3, tags |-> <<s_rust>>, body |-> BodyText]
PostBad == [parses |-> FALSE, published_unix_time |-> 0, tags |-> <<>>, body |-> <<>>]
PostEmptyBlock ==
    [parses |-> TRUE, published_unix_time |-> 1, tags |-> <<>>, body |-> BodyEmptyBlock]

\* The directories of post files: file name -> content
BlogDisks ==
    { (f_x_y_md :> PostV1) }
    \cup { (f_x_md :> x) : x \in {PostV1, PostV2, PostBad} }
    \cup { (f_x_md :> PostV1) @@ (f_y_md :> PostV3) }

\* glob() over the blog directory: the matching paths, alphabetically
BlogGlob(d) ==
    CHOOSE p \in Perms(DOMAIN d) :
        \A i, j \in DOMAIN p : i < j => StrCmp(p[i], p[j]) < 0

\* PostContext::from_file_content
from_file_content(path, content) ==
    IF ~content.parses THEN Err([kind |-> "parse", file |-> path])
    ELSE IF ~push_html(content.body, Len(content.body)).ok THEN Err([kind |-> "panic"])
    ELSE Ok([path |-> path, tags |-> content.tags,
             published_unix_time |-> content.published_unix_time])

\* `for t in &info.meta.tags { tags.entry(t).or_default().insert(time, info) }`
RECURSIVE InsertTags(_, _, _)
InsertTags(tags, n, info) ==
    IF n = 0 THEN tags
    ELSE LET prev == InsertTags(tags, n - 1, info)
             t == info.tags[n]
             old == IF t \in DOMAIN prev THEN prev[t] ELSE <<>>
         IN  MapInsert(prev, t, BTreeInsert(old, info.published_unix_time, info))

\* The loop of BlogState::new over the first n glob results
RECURSIVE BlogLoop(_, _, _)
BlogLoop(d, paths, n) ==
    IF n = 0 THEN Ok([files |-> <<>>, tags |-> <<>>, by_time |-> <<>>])
    ELSE LET prev == BlogLoop(d, paths, n - 1)
             file_name == file_prefix(paths[n])
             info == from_file_content(file_name, d[paths[n]])
         IN  IF ~prev.ok THEN prev
             ELSE IF ~is_uri_idempotent(file_name)
             THEN Err([kind |-> "bad_file_name", file |-> paths[n]])
             ELSE IF ~info.ok THEN info
             ELSE LET time == info.val.published_unix_time
                  IN  Ok([files |-> MapInsert(prev.val.files, file_name, info.val),
                          tags |-> InsertTags(prev.val.tags, Len(info.val.tags), info.val),
                          by_time |-> BTreeInsert(prev.val.by_time, time, info.val)])

\* BlogState::new
BlogState_new(d) == BlogLoop(d, BlogGlob(d), Len(BlogGlob(d)))

\* BlogState::index_context, the `tags` field (the key order is arbitrary)
index_context_tags(s) == DOMAIN s.tags

\* BlogState::index_context, the `posts` field
index_context_posts(s) == Reverse(BTreeValues(s.by_time))

---------------------------------------------------------------------------
(* The update listener, blog::update and the blog request handlers         *)

\* Handlers of the blog index route that may run at once
NumReaders == 1

\* The lines a writer puts into the update pipe
Lines ==
    { <<98,108,111,103,32,98,108,111,103,10>>,            \* "blog blog\n"
      <<112,104,111,116,111,115,32,98,108,111,103,10>>,   \* "photos blog\n"
      <<98,111,103,117,115,32,32,98,108,111,103,10>> }    \* "bogus  blog\n"

\* char::is_whitespace, on the bytes that occur
is_whitespace(c) == c \in {9, 10, 11, 12, 13, 32}

\* str::trim
RECURSIVE trim(_)
trim(s) ==
    IF s = <<>> THEN s
    ELSE IF is_whitespace(s[1]) THEN trim(Tail(s))
    ELSE IF is_whitespace(s[Len(s)]) THEN trim(SubSeq(s, 1, Len(s) - 1))
    ELSE s

\* str::split(' '): the pieces between single spaces, empty ones included
RECURSIVE split(_)
split(s) ==
    LET sp == { i \in 1..Len(s) : s[i] = 32 }
    IN  IF sp = {} THEN << s >>
        ELSE LET i == CHOOSE k \in sp : \A j \in sp : k <= j
             IN  << SubSeq(s, 1, i - 1) >> \o split(SubSeq(s, i + 1, Len(s)))

\* One line of the listener's output
Event(ev, arg) == [ev |-> ev, arg |-> arg]

\* A handler that is not serving a request
IdleReader == [pc |-> "idle", guard |-> 0, tags |-> {}, posts |-> <<>>]

\* The allocations some handler holds a Guard of
Holders(rs) == { rs[r].guard : r \in { q \in DOMAIN rs : rs[q].pc # "idle" } }

\* Arc: an allocation is freed when neither STATE nor a Guard refers to it
Collect(h, st, rs) == [ p \in (DOMAIN h) \cap ({st} \cup Holders(rs)) |-> h[p] ]

\* Arc::new: a fresh allocation
Alloc(h) ==
    LET free == { p \in 1..(Cardinality(DOMAIN h) + 1) : p \notin DOMAIN h }
    IN  CHOOSE p \in free : \A q \in free : p <= q

\* The snapshot that blog::STATE points at
Published == heap[BLOG_STATE]

UInit ==
    /\ blog_disk \in BlogDisks
    /\ BLOG_STATE = 0
    /\ heap = <<>>
    /\ listener = [pc |-> "init", queue |-> <<>>]
    /\ new_state = None
    /\ readers = [ r \in 1..NumReaders |-> IdleReader ]
    /\ log = <<>>

\* main: blog::initialize (lazy_static STATE), fs::canonicalize, then the
\* listener thread is spawned and the server launched
Main ==
    /\ listener.pc = "init"
    /\ LET s == BlogState_new(blog_disk)
       IN  IF ~s.ok
           THEN /\ listener' = [listener EXCEPT !.pc = "exited"]
                /\ UNCHANGED <<BLOG_STATE, heap>>
           ELSE \E canonicalized \in BOOLEAN :
                  /\ heap' = (Alloc(heap) :> s.val)
                  /\ BLOG_STATE' = Alloc(heap)
                  /\ listener' = [listener EXCEPT
                                    !.pc = IF canonicalized THEN "open" ELSE "exited"]
    /\ UNCHANGED <<blog_disk, new_state, readers, log>>

Running == listener.pc \notin {"init", "exited"}

\* The author adds, edits or removes post files.  Only BlogState::new reads
\* the directory, so it is enough that the files change just before a
\* rebuild reads them.
EditBlogTo(disks) ==
    /\ listener.pc = "dispatch"
    /\ listener.queue # <<>>
    /\ Head(listener.queue) = s_blog
    /\ blog_disk' \in disks \ {blog_disk}
    /\ UNCHANGED <<BLOG_STATE, heap, listener, new_state, readers, log>>

EditBlog == EditBlogTo(BlogDisks)

\* FifoFile::open in the retry loop
ListenerOpen ==
    /\ listener.pc = "open"
    /\ \E opened \in BOOLEAN :
         IF opened
         THEN /\ listener' = [listener EXCEPT !.pc = "read"]
              /\ log' = log
         ELSE /\ listener' = listener
              /\ log' = << Event("open_error", <<>>) >>
    /\ UNCHANGED <<blog_disk, BLOG_STATE, heap, new_state, readers>>

\* read_line, had a second thread read the pipe while an update runs
ListenerRead_during_update ==
    /\ listener.pc \in {"read", "store"}
    /\ \/ \E line \in Lines :
            /\ listener' = [pc |-> "dispatch", queue |-> split(trim(line))]
            /\ log' = << Event("received", line) >>
       \/ /\ listener' = [listener EXCEPT !.pc = "open"]
          /\ log' = << Event("read_error", <<>>) >>
    /\ UNCHANGED <<blog_disk, BLOG_STATE, heap, new_state, readers>>

\* reader.read_line: a line arrives, or the read fails and the pipe is
\* opened again
ListenerRead ==
    /\ listener.pc = "read"
    /\ \/ \E line \in Lines :
            /\ listener' = [pc |-> "dispatch", queue |-> split(trim(line))]
            /\ log' = << Event("received", line) >>
       \/ /\ listener' = [listener EXCEPT !.pc = "open"]
          /\ log' = << Event("read_error", <<>>) >>
    /\ UNCHANGED <<blog_disk, BLOG_STATE, heap, new_state, readers>>

\* A component that is neither "photos" nor "blog" is reported and skipped
SkipComponent ==
    /\ listener.pc = "dispatch"
    /\ listener.queue # <<>>
    /\ Head(listener.queue) \notin {s_photos, s_blog}
    /\ listener' = [listener EXCEPT !.queue = Tail(listener.queue)]
    /\ log' = Append(log, Event("skipped", Head(listener.queue)))
    /\ UNCHANGED <<blog_disk, BLOG_STATE, heap, new_state, readers>>

\* photos::update, which leaves the blog alone, and the report of its result
PhotosUpdate ==
    /\ listener.pc = "dispatch"
    /\ listener.queue # <<>>
    /\ Head(listener.queue) = s_photos
    /\ listener' = [listener EXCEPT !.queue = Tail(listener.queue)]
    /\ \E ok \in BOOLEAN :
         log' = Append(log, Event(IF ok THEN "updated" ELSE "failed", s_photos))
    /\ UNCHANGED <<blog_disk, BLOG_STATE, heap, new_state, readers>>

\* blog::update, had a failed build published an empty BlogState
BlogUpdateBuild_publishing_failure ==
    /\ listener.pc = "dispatch"
    /\ listener.queue # <<>>
    /\ Head(listener.queue) = s_blog
    /\ LET s == BlogState_new(blog_disk)
       IN  IF s.ok
           THEN /\ new_state' = Some(s.val)
                /\ listener' = [listener EXCEPT !.pc = "store"]
                /\ UNCHANGED <<BLOG_STATE, heap, log>>
           ELSE IF s.err.kind = "panic"
           THEN /\ new_state' = None
                /\ listener' = [listener EXCEPT !.pc = "panicked"]
                /\ UNCHANGED <<BLOG_STATE, heap, log>>
           ELSE /\ new_state' = None
                /\ listener' = [listener EXCEPT !.queue = Tail(listener.queue)]
                /\ BLOG_STATE' = Alloc(heap)
                /\ heap' = Collect(heap @@ (Alloc(heap) :> BlogLoop(blog_disk, <<>>, 0).val),
                                   Alloc(heap), readers)
                /\ log' = Append(log, Event("failed", s_blog))
    /\ UNCHANGED <<blog_disk, readers>>

\* blog::update, `let new_state = BlogState::new()?;`: on an error, update
\* returns it and the listener reports it; a panic unwinds the listener
\* thread
BlogUpdateBuild ==
    /\ listener.pc = "dispatch"
    /\ listener.queue # <<>>
    /\ Head(listener.queue) = s_blog
    /\ LET s == BlogState_new(blog_disk)
       IN  IF s.ok
           THEN /\ new_state' = Some(s.val)
                /\ listener' = [listener EXCEPT !.pc = "store"]
                /\ log' = log
           ELSE IF s.err.kind = "panic"
           THEN /\ new_state' = None
                /\ listener' = [listener EXCEPT !.pc = "panicked"]
                /\ log' = log
           ELSE /\ new_state' = None
                /\ listener' = [listener EXCEPT !.queue = Tail(listener.queue)]
                /\ log' = Append(log, Event("failed", s_blog))
    /\ UNCHANGED <<blog_disk, BLOG_STATE, heap, readers>>

\* blog::update, had it assigned the new state into the shared allocation
BlogUpdateStore_in_place ==
    /\ listener.pc = "store"
    /\ heap' = [heap EXCEPT ![BLOG_STATE] = Unwrap(new_state)]
    /\ BLOG_STATE' = BLOG_STATE
    /\ new_state' = None
    /\ listener' = [pc |-> "dispatch", queue |-> Tail(listener.queue)]
    /\ log' = Append(log, Event("updated", s_blog))
    /\ UNCHANGED <<blog_disk, readers>>

\* blog::update, `STATE.store(Arc::new(new_state)); Ok(())`, and the report
BlogUpdateStore ==
    /\ listener.pc = "store"
    /\ LET p == Alloc(heap)
       IN  /\ BLOG_STATE' = p
           /\ heap' = Collect(heap @@ (p :> Unwrap(new_state)), p, readers)
    /\ new_state' = None
    /\ listener' = [pc |-> "dispatch", queue |-> Tail(listener.queue)]
    /\ log' = Append(log, Event("updated", s_blog))
    /\ UNCHANGED <<blog_disk, readers>>

\* The end of the `for component` loop
ListenerComplete ==
    /\ listener.pc = "dispatch"
    /\ listener.queue = <<>>
    /\ listener' = [listener EXCEPT !.pc = "read"]
    /\ log' = Append(log, Event("complete", <<>>))
    /\ UNCHANGED <<blog_disk, BLOG_STATE, heap, new_state, readers>>

\* blog::index, `STATE.load()`
ReaderLoad(r) ==
    /\ Running
    /\ readers[r].pc = "idle"
    /\ readers' = [readers EXCEPT ![r] = [IdleReader EXCEPT !.pc = "loaded",
                                                             !.guard = BLOG_STATE]]
    /\ UNCHANGED <<blog_disk, BLOG_STATE, heap, listener, new_state, log>>

\* index_context through the Guard: the `tags` field
ReaderTags(r) ==
    /\ readers[r].pc = "loaded"
    /\ readers' = [readers EXCEPT ![r].pc = "tags",
                                  ![r].tags = index_context_tags(heap[readers[r].guard])]
    /\ UNCHANGED <<blog_disk, BLOG_STATE, heap, listener, new_state, log>>

\* index_context through the Guard: the `posts` field
ReaderPosts(r) ==
    /\ readers[r].pc = "tags"
    /\ readers' = [readers EXCEPT ![r].pc = "ctx",
                                  ![r].posts = index_context_posts(heap[readers[r].guard])]
    /\ UNCHANGED <<blog_disk, BLOG_STATE, heap, listener, new_state, log>>

\* The Guard is dropped at the end of the statement; the template is rendered
ReaderRender(r) ==
    /\ readers[r].pc = "ctx"
    /\ readers' = [readers EXCEPT ![r] = IdleReader]
    /\ heap' = Collect(heap, BLOG_STATE, readers')
    /\ UNCHANGED <<blog_disk, BLOG_STATE, listener, new_state, log>>

\* The photo directory while the blog is updated: not rebuilt
PIdle ==
    /\ PInit
    /\ disk = [manifest |-> [wellformed |-> TRUE, albums |-> <<>>], files |-> <<>>]

InitUpdate == PIdle /\ UInit /\ RIdle /\ FIdle

NextUpdate ==
    \/ Main /\ UNCHANGED <<pvars, rvars, fvars>>
    \/ EditBlog /\ UNCHANGED <<pvars, rvars, fvars>>
    \/ ListenerOpen /\ UNCHANGED <<pvars, rvars, fvars>>
    \/ ListenerRead /\ UNCHANGED <<pvars, rvars, fvars>>
    \/ SkipComponent /\ UNCHANGED <<pvars, rvars, fvars>>
    \/ PhotosUpdate /\ UNCHANGED <<pvars, rvars, fvars>>
    \/ BlogUpdateBuild /\ UNCHANGED <<pvars, rvars, fvars>>
    \/ BlogUpdateStore /\ UNCHANGED <<pvars, rvars, fvars>>
    \/ ListenerComplete /\ UNCHANGED <<pvars, rvars, fvars>>
    \/ \E r \in DOMAIN readers : ReaderLoad(r) /\ UNCHANGED <<pvars, rvars, fvars>>
    \/ \E r \in DOMAIN readers : ReaderTags(r) /\ UNCHANGED <<pvars, rvars, fvars>>
    \/ \E r \in DOMAIN readers : ReaderPosts(r) /\ UNCHANGED <<pvars, rvars, fvars>>
    \/ \E r \in DOMAIN readers : ReaderRender(r) /\ UNCHANGED <<pvars, rvars, fvars>>

SpecUpdate == InitUpdate /\ [][NextUpdate]_vars

\* The directories of post files the listener is followed on: a post that
\* parses, one that does not, and one whose body holds an empty code block
ListenDisks == { (f_x_md :> x) : x \in {PostV1, PostBad, PostEmptyBlock} }

InitListen ==
    /\ PIdle /\ RIdle /\ FIdle
    /\ blog_disk \in ListenDisks
    /\ BLOG_STATE = 0
    /\ heap = <<>>
    /\ listener = [pc |-> "init", queue |-> <<>>]
    /\ new_state = None
    /\ readers = [ r \in 1..NumReaders |-> IdleReader ]
    /\ log = <<>>

NextListen ==
    \/ Main /\ UNCHANGED <<pvars, rvars, fvars>>
    \/ EditBlogTo(ListenDisks) /\ UNCHANGED <<pvars, rvars, fvars>>
    \/ ListenerOpen /\ UNCHANGED <<pvars, rvars, fvars>>
    \/ ListenerRead /\ UNCHANGED <<pvars, rvars, fvars>>
    \/ SkipComponent /\ UNCHANGED <<pvars, rvars, fvars>>
    \/ PhotosUpdate /\ UNCHANGED <<pvars, rvars, fvars>>
    \/ BlogUpdateBuild /\ UNCHANGED <<pvars, rvars, fvars>>
    \/ BlogUpdateStore /\ UNCHANGED <<pvars, rvars, fvars>>
    \/ ListenerComplete /\ UNCHANGED <<pvars, rvars, fvars>>

SpecListen == InitListen /\ [][NextListen]_vars

\* The photo directories the server is started on: b.jpg alone, and a.jpg
\* with a b.jpg that cannot be read
ServerDisks ==
    { [manifest |-> [wellformed |-> TRUE, albums |-> <<>>],
       files |-> (f_b_jpg :> [dt |-> T2, fault |-> "none"])],
      [manifest |-> [wellformed |-> TRUE, albums |-> <<>>],
       files |-> (f_a_jpg :> [dt |-> T1, fault |-> "none"])
                   @@ (f_b_jpg :> [dt |-> T2, fault |-> "io"])] }

\* main: blog::initialize(), the first statement of the release build
BlogInitialize ==
    /\ listener.pc = "init"
    /\ LET s == BlogState_new(blog_disk)
       IN  IF ~s.ok
           THEN /\ listener' = [listener EXCEPT !.pc = "exited"]
                /\ UNCHANGED <<BLOG_STATE, heap>>
           ELSE /\ heap' = (Alloc(heap) :> s.val)
                /\ BLOG_STATE' = Alloc(heap)
                /\ listener' = [listener EXCEPT !.pc = "initialized"]
    /\ UNCHANGED <<blog_disk, new_state, readers, log>>

\* main is at photos::initialize()
AtPhotosInitialize == listener.pc = "initialized"

\* main after both initialize calls: fs::canonicalize, exit(1) on an
\* error, else the listener thread is spawned and rocket launched
Launch ==
    /\ listener.pc = "initialized"
    /\ pc = "serving"
    /\ \E canonicalized \in BOOLEAN :
         listener' = [listener EXCEPT !.pc = IF canonicalized THEN "open" ELSE "exited"]
    /\ UNCHANGED <<blog_disk, BLOG_STATE, heap, new_state, readers, log>>

\* rocket.launch() has been reached: requests are served and the listener
\* thread runs
Launched == listener.pc \in {"open", "read", "dispatch", "store"}

\* exit(1) has been called
ProcessExited == pc = "exited" \/ listener.pc = "exited"

InitServer == disk \in ServerDisks /\ PStart /\ UInit /\ RIdle /\ FIdle

NextServer ==
    \/ BlogInitialize /\ UNCHANGED <<pvars, rvars, fvars>>
    \/ AtPhotosInitialize /\ Prepare /\ UNCHANGED <<uvars, rvars, fvars>>
    \/ AtPhotosInitialize /\ (\E i \in DOMAIN results : ReadPhoto(i))
          /\ UNCHANGED <<uvars, rvars, fvars>>
    \/ AtPhotosInitialize /\ (\E i \in DOMAIN results : ProcessPhoto(i))
          /\ UNCHANGED <<uvars, rvars, fvars>>
    \/ AtPhotosInitialize /\ (\E i \in DOMAIN results : SkipPhoto(i))
          /\ UNCHANGED <<uvars, rvars, fvars>>
    \/ AtPhotosInitialize /\ StatusRecv /\ UNCHANGED <<uvars, rvars, fvars>>
    \/ AtPhotosInitialize /\ StatusExit /\ UNCHANGED <<uvars, rvars, fvars>>
    \/ AtPhotosInitialize /\ StatusPanic /\ UNCHANGED <<uvars, rvars, fvars>>
    \/ AtPhotosInitialize /\ Finish /\ UNCHANGED <<uvars, rvars, fvars>>
    \/ AtPhotosInitialize /\ Initialize /\ UNCHANGED <<uvars, rvars, fvars>>
    \/ Launch /\ UNCHANGED <<pvars, rvars, fvars>>
    \/ EditBlog /\ UNCHANGED <<pvars, rvars, fvars>>
    \/ ListenerOpen /\ UNCHANGED <<pvars, rvars, fvars>>
    \/ ListenerRead /\ UNCHANGED <<pvars, rvars, fvars>>
    \/ SkipComponent /\ UNCHANGED <<pvars, rvars, fvars>>
    \/ PhotosUpdate /\ UNCHANGED <<pvars, rvars, fvars>>
    \/ BlogUpdateBuild /\ UNCHANGED <<pvars, rvars, fvars>>
    \/ BlogUpdateStore /\ UNCHANGED <<pvars, rvars, fvars>>
    \/ ListenerComplete /\ UNCHANGED <<pvars, rvars, fvars>>
    \/ Launched /\ IndexPage /\ UNCHANGED <<pvars, uvars, fvars>>
    \/ Launched /\ (\E name \in {ALL_ALBUM_PATH, FAVORITES_ALBUM_NAME} : AlbumPage(name))
          /\ UNCHANGED <<pvars, uvars, fvars>>

SpecServer == InitServer /\ [][NextServer]_vars

---------------------------------------------------------------------------
(* Properties of blog::update and of the readers of blog::STATE            *)

\* The listener is at the `BlogState::new()?` of blog::update
AtBlogBuild ==
    /\ listener.pc = "dispatch"
    /\ listener.queue # <<>>
    /\ Head(listener.queue) = s_blog

\* The snapshots BlogState::new can return
WholeSnapshots == { BlogState_new(d).val : d \in { e \in BlogDisks : BlogState_new(e).ok } }

\* C1: after a successful initial build, for any sequence of update lines,
\* a blog rebuild that succeeds replaces the published snapshot by the one it
\* has just built from the directory, as a whole, and a rebuild that fails
\* (a bad file name, a post that does not parse) leaves the published
\* snapshot exactly as it was when the rebuild started; no other step of the
\* program changes the published snapshot.
C1_Rebuild ==
    [][ Running =>
          /\ IF listener.pc = "store" /\ listener' # listener
             THEN Published' = Unwrap(new_state)
             ELSE Published' = Published
          /\ (AtBlogBuild /\ listener' # listener) =>
               LET s == BlogState_new(blog_disk)
               IN  IF s.ok
                   THEN /\ new_state' = Some(s.val)
                        /\ listener'.pc = "store"
                        /\ listener'.queue = listener.queue
                   ELSE /\ Published' = Published
                        /\ log' = Append(log, Event("failed", s_blog))
                        /\ listener'.pc = "dispatch"
                        /\ listener'.queue = Tail(listener.queue) ]_vars

\* One update line whose first rebuild succeeded and published a new
\* snapshot and whose second rebuild failed, the directory having changed in
\* between: the snapshot of the first rebuild is still the published one
C1_Witness ==
    /\ Running
    /\ Len(log) = 3
    /\ log[2] = Event("updated", s_blog)
    /\ log[3] = Event("failed", s_blog)
    /\ ~BlogState_new(blog_disk).ok
    /\ Published = BlogState_new((f_x_md :> PostV2)).val

---------------------------------------------------------------------------
(* Properties of the process: start-up, the listener, the rebuilds         *)

\* The last line the listener has written
LastEvent == log[Len(log)]

\* What holds in every state of the server about the initial photo build
StartupIsFatal ==
    /\ (Returned /\ BuildErr /\ pc # "returned") => pc = "exited"
    /\ ProcessExited => (~Launched /\ ~ENABLED <<NextServer>>_vars)
    /\ request # None => (BuildOk /\ PHOTOS_STATE = Some(Snapshot))
    /\ Launched => (BuildOk /\ PHOTOS_STATE = Some(Snapshot) /\ BLOG_STATE # 0)

---------------------------------------------------------------------------
(* PhotoExifInfo: the GPS tags and the user comment                        *)

GpsTags == {"GPSLatitude", "GPSLongitude", "GPSLatitudeRef", "GPSLongitudeRef"}
ExifTags == GpsTags \cup {"UserComment"}

\* exif::Value, as far as the extractor tells values apart
Rational(vs) == [type |-> "Rational", rationals |-> vs]
Ascii(vs) == [type |-> "Ascii", strings |-> vs]
Undefined(v) == [type |-> "Undefined", bytes |-> v]
Short(v) == [type |-> "Short", shorts |-> v]

\* exif.get_field(tag, In::PRIMARY)
get_field(exif, tag) == exif[tag]

\* An error wrapped by .context(..)
Context(msg, res) == IF res.ok THEN res ELSE Err([kind |-> "context", msg |-> msg, of |-> res.err])

\* PhotoExifInfo::gps_decimal.  The magnitude is kept in arc seconds
\* (3600 * DD), exact for the whole numbers of arc seconds used here.
gps_decimal(exif, tag) ==
    LET field == get_field(exif, tag)
        value == Unwrap(field)
        vs == value.rationals
    IN  IF field = None THEN Ok(None)
        ELSE IF value.type = "Rational" /\ Len(vs) = 3
        THEN Ok(Some(((3600 * vs[1].num) \div vs[1].denom)
                     + ((60 * vs[2].num) \div vs[2].denom)
                     + (vs[3].num \div vs[3].denom)))
        ELSE IF value.type = "Rational" THEN Err([kind |-> "number_of_rationals"])
        ELSE Err([kind |-> "expected_rationals"])

\* PhotoExifInfo::gps_ref
gps_ref(exif, tag, pos, neg) ==
    LET field == get_field(exif, tag)
        value == Unwrap(field)
    IN  IF field = None THEN Ok(None)
        ELSE IF value.type = "Ascii" /\ Len(value.strings) = 1
        THEN IF value.strings[1] = pos THEN Ok(Some(1))
             ELSE IF value.strings[1] = neg THEN Ok(Some(-1))
             ELSE Err([kind |-> "expected_pos_or_neg"])
        ELSE IF value.type = "Ascii" THEN Err([kind |-> "expected_single_ascii"])
        ELSE Err([kind |-> "expected_ascii"])

\* .into_iter().filter(|(is_some, _)| *is_some).map(|(_, name)| name).collect()
FilterNames(pairs) ==
    LET kept == SelectSeq(pairs, LAMBDA p : p[1])
    IN  [ i \in DOMAIN kept |-> kept[i][2] ]

\* PhotoExifInfo::get_gps_coords
get_gps_coords(exif) ==
    LET lat == Context("GPSLatitude", gps_decimal(exif, "GPSLatitude"))
        lon == Context("GPSLongitude", gps_decimal(exif, "GPSLongitude"))
        lat_sign == Context("GPSLatitudeRef", gps_ref(exif, "GPSLatitudeRef", <<78>>, <<83>>))
        lon_sign == Context("GPSLongitudeRef", gps_ref(exif, "GPSLongitudeRef", <<69>>, <<87>>))
    IN  IF ~lat.ok THEN lat
        ELSE IF ~lon.ok THEN lon
        ELSE IF ~lat_sign.ok THEN lat_sign
        ELSE IF ~lon_sign.ok THEN lon_sign
        ELSE IF lat.val # None /\ lon.val # None /\ lat_sign.val # None /\ lon_sign.val # None
        THEN Ok(Some([lat |-> Unwrap(lat.val) * Unwrap(lat_sign.val),
                      lon |-> Unwrap(lon.val) * Unwrap(lon_sign.val)]))
        ELSE IF lat.val = None /\ lon.val = None /\ lat_sign.val = None /\ lon_sign.val = None
        THEN Ok(None)
        ELSE Err([kind |-> "partial",
                  missing |-> FilterNames(<< <<lat.val # None, "GPSLatitude">>,
                                             <<lat_sign.val # None, "GPSLatitudeRef">>,
                                             <<lon.val # None, "GPSLongitude">>,
                                             <<lon_sign.val # None, "GPSLongitudeRef">> >>)])

ALT_TEXT_PREFIX == <<97,108,116,58>>                      \* "alt:"

\* The character codes that open the UserComment value
CODE_ASCII == <<65,83,67,73,73,0,0,0>>
CODE_JIS == <<74,73,83,0,0,0,0,0>>
CODE_UNICODE == <<85,78,73,67,79,68,69,0>>
CODE_UNDEFINED == <<0,0,0,0,0,0,0,0>>

\* str::starts_with
starts_with(s, prefix) ==
    Len(s) >= Len(prefix) /\ SubSeq(s, 1, Len(prefix)) = prefix

\* util::markdown_to_html on text without markdown syntax: nothing for the
\* empty text, an HTML block as it is, any other text as one paragraph
markdown_to_html(md) ==
    IF md = <<>> THEN <<>>
    ELSE IF md[1] = 60 THEN md
    ELSE <<60,112,62>> \o md \o <<60,47,112,62,10>>

\* std::str::from_utf8 on bytes that are single ASCII characters or not
\* UTF-8 at all
from_utf8(bytes) ==
    IF \A i \in DOMAIN bytes : bytes[i] < 128 THEN Ok(bytes) ELSE Err([kind |-> "utf8"])

\* The little-endian (u8, u8) -> u16 loop and String::from_utf16, on units
\* that are single characters or lone surrogates
from_utf16_le(s) ==
    LET v == [ i \in 1..(Len(s) \div 2) |-> s[2 * i - 1] + 256 * s[2 * i] ]
    IN  IF \E i \in DOMAIN v : 55296 <= v[i] /\ v[i] <= 57343
        THEN Err([kind |-> "utf16"]) ELSE Ok(v)

\* PhotoExifInfo::get_description up to `md`: the text of the comment
user_comment_text(exif) ==
    LET field == get_field(exif, "UserComment")
        desc == Unwrap(field).bytes
        code == SubSeq(desc, 1, 8)
        rest == SubSeq(desc, 9, Len(desc))
        md == IF code = CODE_ASCII THEN from_utf8(rest) ELSE from_utf16_le(rest)
    IN  IF field = None THEN Ok(None)
        ELSE IF Unwrap(field).type # "Undefined" THEN Err([kind |-> "expected_undefined"])
        ELSE IF desc = <<>> THEN Ok(None)
        ELSE IF Len(desc) < 8 THEN Err([kind |-> "expected_character_code"])
        ELSE IF code = CODE_JIS THEN Err([kind |-> "jis"])
        ELSE IF code = CODE_UNDEFINED THEN Err([kind |-> "undefined_encoding"])
        ELSE IF code \notin {CODE_ASCII, CODE_UNICODE}
        THEN Err([kind |-> "expected_character_code"])
        ELSE IF code = CODE_UNICODE /\ Len(rest) % 2 # 0 THEN Err([kind |-> "odd_length"])
        ELSE IF ~md.ok THEN md
        ELSE IF md.val = <<>> THEN Ok(None)
        ELSE Ok(Some(md.val))

\* PhotoExifInfo::get_description
get_description(exif) ==
    LET md == user_comment_text(exif)
    IN  IF ~md.ok \/ md.val = None THEN md
        ELSE Ok(Some(markdown_to_html(Unwrap(md.val))))

\* str::split_once('\n')
split_once(s) ==
    LET nl == { i \in DOMAIN s : s[i] = 10 }
        i == CHOOSE k \in nl : \A j \in nl : k <= j
    IN  IF nl = {} THEN None
        ELSE Some(<< SubSeq(s, 1, i - 1), SubSeq(s, i + 1, Len(s)) >>)

\* The closure of from_img_data over the description, lines 842-865: the
\* pair it returns
split_alt_text(desc) ==
    LET parts == split_once(desc)
        first_line == Unwrap(parts)[1]
        rest == Unwrap(parts)[2]
    IN  IF ~starts_with(desc, ALT_TEXT_PREFIX)
        THEN << Some(markdown_to_html(desc)), None >>
        ELSE IF parts = None THEN << None, Some(desc) >>
        ELSE << Some(SubSeq(first_line, Len(ALT_TEXT_PREFIX) + 1, Len(first_line))),
                Some(markdown_to_html(rest)) >>

\* PhotoExifInfo::from_img_data, lines 840-867: `let (description, alt_text)`
from_img_data_description(exif) ==
    LET got == Context("description", get_description(exif))
        pair == IF got.val = None THEN << None, None >> ELSE split_alt_text(Unwrap(got.val))
    IN  IF ~got.ok THEN got
        ELSE Ok([description |-> pair[1], alt_text |-> pair[2]])

\* The Exif data the extractor is called on: the GPS tags ...
NoTags == [ t \in ExifTags |-> None ]
Dms(d, m, s) == Rational(<< [num |-> d, denom |-> 1], [num |-> m, denom |-> 1],
                            [num |-> s, denom |-> 1] >>)
GpsExifs ==
    { [NoTags EXCEPT !["GPSLatitude"] = lat, !["GPSLongitude"] = lon,
                     !["GPSLatitudeRef"] = lat_ref, !["GPSLongitudeRef"] = lon_ref] :
        lat \in { None, Some(Dms(46, 1, 30)), Some(Rational(<<>>)) },
        lon \in { None, Some(Dms(7, 45, 0)), Some(Short(<<7>>)) },
        lat_ref \in { None, Some(Ascii(<< <<78>> >>)), Some(Ascii(<< <<83>> >>)),
                      Some(Ascii(<< <<88>> >>)) },
        lon_ref \in { None, Some(Ascii(<< <<69>> >>)), Some(Ascii(<< <<87>> >>)),
                      Some(Ascii(<< <<69>>, <<87>> >>)) } }

\* ... and the user comment: texts with and without the marker, of one and
\* of two lines
CommentTexts ==
    { <<>>, <<99>>, <<99,10,100>>,                        \* "", "c", "c\nd"
      <<97,108,116,58,99>>,                               \* "alt:c"
      <<97,108,116,58,99,10,100>>,                        \* "alt:c\nd"
      <<97,108,116,58>>,                                  \* "alt:"
      <<99,255>> }
Utf16Le(text) == [ i \in 1..(2 * Len(text)) |-> IF i % 2 = 1 THEN text[(i + 1) \div 2] ELSE 0 ]
CommentExifs ==
    { [NoTags EXCEPT !["UserComment"] = c] :
        c \in { None, Some(Ascii(<< <<99>> >>)), Some(Undefined(<<>>)), Some(Undefined(<<99>>)),
                Some(Undefined(CODE_JIS \o <<99>>)), Some(Undefined(CODE_UNDEFINED \o <<99>>)),
                Some(Undefined(CODE_UNICODE \o <<99>>)),
                Some(Undefined(CODE_UNICODE \o <<0, 216>>)) }
              \cup { Some(Undefined(CODE_ASCII \o t)) : t \in CommentTexts }
              \cup { Some(Undefined(CODE_UNICODE \o Utf16Le(t))) : t \in CommentTexts } }

\* A call of get_gps_coords returns
GetGpsCoords ==
    /\ call # None /\ ret = None
    /\ Unwrap(call).fn = "get_gps_coords"
    /\ ret' = Some(get_gps_coords(Unwrap(call).exif))
    /\ call' = call

\* from_img_data gets as far as `let (description, alt_text)`
FromImgData ==
    /\ call # None /\ ret = None
    /\ Unwrap(call).fn = "from_img_data"
    /\ ret' = Some(from_img_data_description(Unwrap(call).exif))
    /\ call' = call

InitExif ==
    /\ PIdle /\ UIdle /\ RIdle
    /\ call \in { Some([fn |-> "get_gps_coords", exif |-> e]) : e \in GpsExifs }
                \cup { Some([fn |-> "from_img_data", exif |-> e]) : e \in CommentExifs }
    /\ ret = None

NextExif ==
    \/ GetGpsCoords /\ UNCHANGED <<pvars, uvars, rvars>>
    \/ FromImgData /\ UNCHANGED <<pvars, uvars, rvars>>

SpecExif == InitExif /\ [][NextExif]_vars

\* The call that has returned, and what it returned
Called(fn) == call # None /\ ret # None /\ Unwrap(call).fn = fn
Returns == Unwrap(ret)

\* The GPS tags the Exif data holds, each of them well-formed
GpsPresent == { t \in GpsTags : Unwrap(call).exif[t] # None }
GpsWellFormed ==
    LET e == Unwrap(call).exif
    IN  /\ gps_decimal(e, "GPSLatitude").ok
        /\ gps_decimal(e, "GPSLongitude").ok
        /\ gps_ref(e, "GPSLatitudeRef", <<78>>, <<83>>).ok
        /\ gps_ref(e, "GPSLongitudeRef", <<69>>, <<87>>).ok

\* The GPS rule without the content of the message: coordinates with all
\* four tags, none without any, an error for every other subset
GpsAllOrNothing ==
    (Called("get_gps_coords") /\ GpsWellFormed) =>
        IF GpsPresent = GpsTags THEN Returns.ok /\ Returns.val # None
        ELSE IF GpsPresent = {} THEN Returns = Ok(None)
        ELSE ~Returns.ok /\ Returns.err.kind = "partial"

\* C22: the four GPS tags yield coordinates when all are present, no
\* coordinates and no error when all are absent, and for every other subset
\* an error whose message lists exactly the missing tags.
C22_Original ==
    /\ GpsAllOrNothing
    /\ (Called("get_gps_coords") /\ GpsWellFormed /\ GpsPresent \notin {{}, GpsTags}) =>
          Range(Returns.err.missing) = GpsTags \ GpsPresent

\* The text of the user comment of the call
CommentText == Unwrap(user_comment_text(Unwrap(call).exif).val)
HasCommentText ==
    /\ Called("from_img_data")
    /\ user_comment_text(Unwrap(call).exif).ok
    /\ user_comment_text(Unwrap(call).exif).val # None

\* C23: when the first line of the comment text starts with "alt:", that
\* line without the marker is alt_text and the rendered remaining lines are
\* description, which is absent when there is one line only; a text that
\* does not start with the marker is description as a whole, rendered, and
\* alt_text is absent.
C23_Original ==
    HasCommentText =>
        LET parts == split_once(CommentText)
            first_line == IF parts = None THEN CommentText ELSE Unwrap(parts)[1]
        IN  /\ Returns.ok
            /\ IF ~starts_with(CommentText, ALT_TEXT_PREFIX)
               THEN /\ Returns.val.description = Some(markdown_to_html(CommentText))
                    /\ Returns.val.alt_text = None
               ELSE /\ Returns.val.alt_text =
                          Some(SubSeq(first_line, Len(ALT_TEXT_PREFIX) + 1, Len(first_line)))
                    /\ Returns.val.description =
                          (IF parts = None THEN None
                           ELSE Some(markdown_to_html(Unwrap(parts)[2])))

---------------------------------------------------------------------------
(* FifoFile: the descriptors of the update pipe                            *)

\* Attempts to open the pipe that are followed
MaxOpens == 8

\* What the path of the pipe names when open is called: nothing, a file
\* whose fstat fails, a regular file, a FIFO; or the path holds a NUL byte
FileKinds == {"nul", "missing", "fstat_error", "regular", "fifo"}

\* The descriptors of the process before the listener opens anything
StdFds == {0, 1, 2}

\* open(2) returns the lowest descriptor that is not open
open2(fds) == CHOOSE fd \in 0..Cardinality(fds) : fd \notin fds /\ \A n \in 0..(fd - 1) : n \in fds

\* FifoFile::open: what it returns and the descriptors open afterwards
FifoFile_open(fds, kind) ==
    LET fd == open2(fds)
        opened == fds \cup {fd}
    IN  IF kind = "nul" THEN [res |-> Err([kind |-> "nul"]), fds |-> fds]
        ELSE IF kind = "missing" THEN [res |-> Err([kind |-> "os"]), fds |-> fds]
        ELSE IF kind = "fstat_error" THEN [res |-> Err([kind |-> "os"]), fds |-> opened]
        ELSE IF kind = "regular" THEN [res |-> Err([kind |-> "not_a_fifo"]), fds |-> opened]
        ELSE [res |-> Ok([fd |-> fd]), fds |-> opened]

\* impl Drop for FifoFile: libc::close(self.fd)
FifoFile_drop(fds, file) == fds \ {file.fd}

\* listen_for_updates, the inner `loop` that opens the pipe: one attempt
FifoOpen ==
    /\ call # None
    /\ Unwrap(call).fn = "listen_for_updates"
    /\ Unwrap(call).pc = "open"
    /\ Unwrap(call).opens < MaxOpens
    /\ \E kind \in FileKinds :
         LET r == FifoFile_open(Unwrap(call).fds, kind)
         IN  /\ call' = Some([Unwrap(call) EXCEPT
                                !.pc = IF r.res.ok THEN "read" ELSE "open",
                                !.fds = r.fds,
                                !.file = IF r.res.ok THEN Some(r.res.val) ELSE None,
                                !.opens = @ + 1])
             /\ ret' = Some(r.res)

\* read_line fails: `break` leaves the block that owns the reader, and the
\* FifoFile inside it is dropped
FifoReadError ==
    /\ call # None
    /\ Unwrap(call).fn = "listen_for_updates"
    /\ Unwrap(call).pc = "read"
    /\ call' = Some([Unwrap(call) EXCEPT
                       !.pc = "open",
                       !.fds = FifoFile_drop(@, Unwrap(Unwrap(call).file)),
                       !.file = None])
    /\ ret' = None

InitFifo ==
    /\ PIdle /\ UIdle /\ RIdle
    /\ call = Some([fn |-> "listen_for_updates", pc |-> "open", fds |-> StdFds,
                    file |-> None, opens |-> 0])
    /\ ret = None

NextFifo ==
    \/ FifoOpen /\ UNCHANGED <<pvars, uvars, rvars>>
    \/ FifoReadError /\ UNCHANGED <<pvars, uvars, rvars>>

SpecFifo == InitFifo /\ [][NextFifo]_vars

\* The descriptors that a FifoFile owns
Held == IF Unwrap(call).file = None THEN {} ELSE {Unwrap(Unwrap(call).file).fd}

\* C30: FifoFile::open leaves no descriptor open when it returns an error,
\* so failed opens in the retry loop do not accumulate descriptors; a
\* descriptor is held only by a returned FifoFile and is closed exactly
\* once, when the FifoFile is dropped.
C30_Original == Unwrap(call).fds = StdFds \cup Held

\* Without the two error returns that follow open(2), the descriptors are
\* as the claim says
LeakOnlyAfterOpen2 ==
    [][(\A n \in Unwrap(call).fds' \ Unwrap(call).fds : n \in Held')
        \/ (ret' # None /\ ~Unwrap(ret').ok /\ Unwrap(ret').err.kind \in {"os", "not_a_fifo"})]_vars

---------------------------------------------------------------------------
(* markdown_to_html, event by event                                        *)

\* push_html pulls the next event through the two maps
MapEvent ==
    /\ call # None
    /\ Unwrap(call).fn = "markdown_to_html"
    /\ ret = None
    /\ Unwrap(call).pos < Len(Unwrap(call).events)
    /\ \E served \in BOOLEAN :
         LET c == Unwrap(call)
             r == map_event(c.code_state, c.events[c.pos + 1], served)
         IN  /\ call' = Some([c EXCEPT !.pos = @ + 1, !.code_state = r.self,
                                       !.out = IF r.out.ok THEN Append(@, r.out.val) ELSE @])
             /\ ret' = IF r.out.ok THEN None ELSE Some(r.out)

InitHtml ==
    /\ PIdle /\ UIdle /\ RIdle
    /\ call \in { Some([fn |-> "markdown_to_html", events |-> d, pos |-> 0,
                        code_state |-> NotStarted, out |-> <<>>]) : d \in Documents }
    /\ ret = None

NextHtml == MapEvent /\ UNCHANGED <<pvars, uvars, rvars>>

SpecHtml == InitHtml /\ [][NextHtml]_vars

\* The code block that event number i of the document is part of: the
\* position of its Start, or 0 outside of code blocks
BlockStart(events, i) ==
    LET starts == { j \in 1..i : /\ events[j].ev = "Start" /\ events[j].tag = "CodeBlock"
                                 /\ \A k \in j..(i - 1) : events[k].ev # "End" }
    IN  IF starts = {} THEN 0 ELSE CHOOSE j \in starts : TRUE

\* The concatenation of the Text events from position j to position i
RECURSIVE BlockCode(_, _, _)
BlockCode(events, j, i) ==
    IF j > i THEN <<>>
    ELSE (IF events[j].ev = "Text" THEN events[j].text ELSE <<>>) \o BlockCode(events, j + 1, i)

\* The event that is to come out for event number i
Expected(events, i) ==
    LET j == BlockStart(events, i)
        language == IF events[j].text = <<>> THEN None ELSE Some(events[j].text)
    IN  IF j = 0 THEN { events[i] }
        ELSE IF events[i].ev # "End" THEN { empty_event }
        ELSE { Event_Html(code_block_to_html(BlockCode(events, j, i), language, served)) :
                 served \in BOOLEAN }

\* The events that came out are the ones that are to come out
OutputsAsExpected ==
    (call # None /\ Unwrap(call).fn = "markdown_to_html") =>
        LET c == Unwrap(call)
        IN  /\ \A i \in DOMAIN c.out : c.out[i] \in Expected(c.events, i)
            /\ (c.pos > 0 /\ ret = None /\ c.events[c.pos].ev = "End") =>
                   c.code_state = NotStarted

\* C26: for every code block, a Start(CodeBlock), zero or more Text events
\* and the End(CodeBlock), map_event returns empty placeholder events up to
\* the End, at the End one Html event made of the block's texts in order,
\* and is in NotStarted afterwards; events outside of code blocks pass
\* unchanged; it panics on no such sequence.
C26_Original ==
    /\ OutputsAsExpected
    /\ (call # None /\ Unwrap(call).fn = "markdown_to_html") => ret = None

---------------------------------------------------------------------------
(* Properties of the update listener                                       *)

\* The listener thread is in its loop
Listening == listener.pc \in {"open", "read", "dispatch", "store"}

\* The components of the line that was read last
Components == split(trim(log[1].arg))

\* The line of the listener's output for a component that was handled
Reported(e, component) ==
    IF component \in {s_photos, s_blog}
    THEN e \in {Event("updated", component), Event("failed", component)}
    ELSE e = Event("skipped", component)

\* A step of the listener calls an update function
UpdateCalled ==
    \/ new_state' # new_state
    \/ listener.pc # "init" /\ BLOG_STATE' # BLOG_STATE
    \/ listener'.pc = "panicked" /\ listener.pc # "panicked"
    \/ log' # log /\ log'[Len(log')].ev \in {"updated", "failed"}

\* A failed read leads back to open; a failed open is reported once and is
\* followed by the next attempt; an update function is called only for a
\* line that was read from the open pipe
RetriesAndReads ==
    /\ [][ /\ (listener.pc = "read" /\ log' # log /\ log'[Len(log')].ev = "read_error") =>
                 listener'.pc = "open"
           /\ (listener.pc = "open" /\ listener'.pc = "open" /\ log' # log) =>
                 log' = << Event("open_error", <<>>) >>
           /\ (listener.pc = "open" /\ listener'.pc # "open") => listener'.pc = "read"
           /\ (listener.pc # "read" /\ listener'.pc = "dispatch" /\ listener.pc # "dispatch") =>
                 listener.pc = "store"
           /\ UpdateCalled =>
                 /\ listener.pc \in {"dispatch", "store"}
                 /\ log # <<>> /\ log[1].ev = "received" ]_vars
    /\ [](listener.pc = "open" => ENABLED <<ListenerOpen /\ UNCHANGED <<pvars, rvars, fvars>>>>_vars
                                   \/ log = << Event("open_error", <<>>) >>)
    /\ [](listener.pc \in {"dispatch", "store"} => (log # <<>> /\ log[1].ev = "received"))

\* The listener thread does not end
NeverExits == [][Listening => Listening']_vars

\* C24: a failed read makes the listener drop the pipe and open it again;
\* while opening fails it reports one error per attempt and tries again,
\* without bound; the listener never exits; and it calls an update function
\* only after a line was read from an open pipe.
C24_Original == RetriesAndReads /\ NeverExits

\* The components handled so far were handled one by one in the order of
\* the line, each reported as its kind requires
HandledInOrder ==
    (listener.pc \in {"dispatch", "store"}) =>
        LET n == Len(Components) - Len(listener.queue)
        IN  /\ n >= 0
            /\ listener.queue = SubSeq(Components, n + 1, Len(Components))
            /\ Len(log) = n + 1
            /\ \A i \in 1..n : Reported(log[i + 1], Components[i])

\* Whatever a component is and however its update ends, the listener goes
\* on to the next component, and after the last one to the next line
GoesOn ==
    [][ /\ (listener.pc = "dispatch" /\ listener' # listener /\ listener.queue # <<>>) =>
              \/ listener' = [listener EXCEPT !.queue = Tail(listener.queue)]
              \/ Head(listener.queue) = s_blog /\ listener' = [listener EXCEPT !.pc = "store"]
        /\ (listener.pc = "store" /\ listener' # listener) =>
              listener' = [pc |-> "dispatch", queue |-> Tail(listener.queue)]
        /\ (listener.pc = "dispatch" /\ listener' # listener /\ listener.queue = <<>>) =>
              listener'.pc = "read" ]_vars

\* C25: for a line of several components every recognized component has
\* its update function called once per occurrence, in the order written;
\* an unrecognized one is reported and skipped; neither an unrecognized
\* component nor a failed update keeps the later components of the line, or
\* later lines, from being handled.
C25_Original == []HandledInOrder /\ GoesOn

\* C27: rebuilds are serialized.  While a rebuild is in progress the
\* listener does nothing but finish and publish it: no line is read and no
\* other update function is called before; and a snapshot is published by
\* the component at the head of the line, so in the order of the triggers.
C27_Serialized ==
    /\ [](new_state # None => listener.pc = "store")
    /\ [](listener.pc = "read" => listener.queue = <<>>)
    /\ [][ /\ (new_state # None /\ listener' # listener) =>
                 /\ new_state' = None
                 /\ BLOG_STATE' # BLOG_STATE
                 /\ listener' = [pc |-> "dispatch", queue |-> Tail(listener.queue)]
           /\ (listener.pc # "init" /\ BLOG_STATE' # BLOG_STATE) =>
                 /\ listener.pc = "store"
                 /\ Head(listener.queue) = s_blog
                 /\ heap'[BLOG_STATE'] = Unwrap(new_state)
           /\ (listener.pc \in {"dispatch", "store"} /\ listener'.pc \in {"dispatch", "store"}) =>
                 log'[1] = log[1] ]_vars

\* C27 witness: a rebuild is in progress while the next trigger of the line
\* waits for it
C27_Witness ==
    /\ listener.pc = "store"
    /\ new_state # None
    /\ Len(listener.queue) = 2

====
